---------------------------- MODULE Spec2Model ----------------------------
(***************************************************************************)
(* Model of the tool-schema pipeline of precision_eval:                    *)
(*   src/schema_validation_accuracy.py  (brace scanner, parser, schema     *)
(*                                       completion, catalog builder,      *)
(*                                       validator)                        *)
(*   src/normalize_tool_schema.py       (quote normaliser, brace scanner,  *)
(*                                       four-strategy parser)             *)
(*                                                                         *)
(* A text is a sequence of tokens.  A token is one punctuation character   *)
(* or one word; the Python string is the concatenation of the tokens.      *)
(* Positions are Python positions (0-based).  Python values are tagged     *)
(* tuples: <<"none">>, <<"str", text>>, <<"int", n>>, <<"bool", b>>,       *)
(* <<"dict", pairs>>, <<"set", elems>>, <<"list", elems>>.                 *)
(***************************************************************************)
EXTENDS Integers, Sequences, FiniteSets, TLC

VARIABLES
    pc,           \* which step of the running specification comes next
    text,         \* the text handed to the scanner or to the parser
    start_pos,    \* scanner input: the offset the search starts at
    scanned,      \* scanner outputs: [sva |-> ..., nts |-> ...]
    impl,         \* parser: "sva" (schema_validation_accuracy) or "nts"
                  \* (normalize_tool_schema)
    tried,        \* parser: what each strategy tried so far yielded
    result,       \* parser: the value returned
    content,      \* catalog builder: the text of the tool file
    tool_blocks,  \* catalog builder: the blocks the text was split into
    block_i,      \* catalog builder: the index of the block handled next
    tools_schema, \* catalog builder: the Catalog, pairs <<name, entry>>
    fields,       \* catalog builder: per named block, the spans cut and
                  \* the values parsed from them (the loop's locals)
    validation,   \* validator: the call made and what it returned
    data_folders, \* accuracy: per folder path, whether it exists and the
                  \* names glob('*.json') lists in it
    folder_i,     \* accuracy: the index of the folder handled next
    json_files,   \* accuracy: the listing of the folder being handled
    file_i,       \* accuracy: the index of the file handled next
    tool_calls,   \* accuracy: the calls extracted from the file
    call_i,       \* accuracy: the index of the call handled next
    total_calls, valid_calls, action_valid_calls, observation_valid_calls,
    error_type_stats,
    file_total_calls, file_valid_calls, file_action_valid_calls,
    file_observation_valid_calls, file_invalid_details,
    per_file_results,
    printed,      \* accuracy: the warnings and errors printed so far
    accuracy_result, \* accuracy: the value returned
    fixed_texts,  \* normalisation: the texts fix_json_string returned,
                  \* the first for the input, the next for the one before
    repair,       \* repairs: the repair that is applied
    repaired,     \* repairs: the text the repair returned
    round_trip,   \* round trip: the values parsed and the text written
    idx,          \* duplicates, renaming: the index of the loop that runs
    calls,        \* duplicates: the calls handed to the calculation
    seen_signatures, seen_tools, prev_signature,
    exact_dup_count, tool_dup_count, consecutive_dup_count,
    duplicate_details,
    tool_calls_map,
    duplicate_metrics, \* duplicates: the value returned
    folder,       \* renaming: whether the folder exists, and per name the
                  \* content of the file of that name (NoFile: no such file)
    folder_before, \* renaming: the folder as it was when the call was made
    dry_run,      \* renaming: the dry_run argument
    posix,        \* renaming: rename replaces an existing target (POSIX)
                  \* or raises FileExistsError (Windows)
    old_files,    \* renaming: json_files, the sorted names to rename
    temp_files,   \* renaming: the pairs <<temporary name, idx>>
    stage1_count, stage2_count,
    parse_errors  \* normalised file: the parse errors normalize_tool_txt
                  \* returned

scanVars    == <<start_pos, scanned>>
parseVars   == <<impl, tried, result>>
catalogVars == <<content, tool_blocks, block_i, tools_schema, fields, validation>>
overallVars == <<total_calls, valid_calls, action_valid_calls,
                 observation_valid_calls, error_type_stats>>
fileVars    == <<file_total_calls, file_valid_calls, file_action_valid_calls,
                 file_observation_valid_calls, file_invalid_details>>
loopVars    == <<data_folders, folder_i, json_files, file_i, tool_calls,
                 call_i>>
accuracyVars == <<loopVars, overallVars, fileVars, per_file_results, printed,
                  accuracy_result>>
normalizeVars == <<fixed_texts, repair, repaired, round_trip>>
duplicateVars == <<calls, seen_signatures, seen_tools, prev_signature,
                   exact_dup_count, tool_dup_count, consecutive_dup_count,
                   duplicate_details, tool_calls_map, duplicate_metrics>>
renameVars == <<folder, folder_before, dry_run, posix, old_files, temp_files,
                stage1_count, stage2_count>>
utilityVars == <<idx, duplicateVars, renameVars, parse_errors>>
vars == <<pc, text, scanVars, parseVars, catalogVars, accuracyVars,
          normalizeVars, utilityVars>>

\* What the steps of one specification leave alone: the variables of the
\* other specifications
notScan    == <<parseVars, catalogVars, accuracyVars, normalizeVars,
                utilityVars>>
notParse   == <<scanVars, catalogVars, accuracyVars, normalizeVars,
                utilityVars>>
notCatalog == <<scanVars, parseVars, accuracyVars, normalizeVars,
                utilityVars>>
notNormalize == <<scanVars, parseVars, catalogVars, accuracyVars,
                  utilityVars>>
notDuplicate == <<scanVars, parseVars, catalogVars, accuracyVars,
                  normalizeVars, renameVars, parse_errors>>
notRename  == <<scanVars, parseVars, catalogVars, accuracyVars,
                normalizeVars, duplicateVars, parse_errors>>
\* (the accuracy calculation builds its Catalog from the tool file)
notAccuracy == <<scanVars, parseVars, content, tool_blocks, block_i, fields,
                 validation, normalizeVars, utilityVars>>

---------------------------------------------------------------------------
(* Characters and Python values                                            *)

LBRACE == "{"
RBRACE == "}"
DQ     == "\""
SQ     == "'"
BSL    == "\\"

PyNone     == <<"none">>
PyStr(t)   == <<"str", t>>
IsStr(v)   == v[1] = "str"

\* text[i] and text[a:b] with Python's 0-based positions
At(t, i)       == t[i + 1]
Slice(t, a, b) == SubSeq(t, a + 1, b)

\* str.find(ch, start): the first position >= start holding ch, or -1
RECURSIVE Find(_, _, _)
Find(t, ch, start) ==
    IF start >= Len(t) THEN -1
    ELSE IF At(t, start) = ch THEN start
    ELSE Find(t, ch, start + 1)

\* Python's False for the in_string flag (no token is the empty string)
NoStr == ""

---------------------------------------------------------------------------
(* Token classes, as the regular expressions and parsers of the code see   *)
(* them.  Every word a text of the model may hold is listed here.          *)

LBRACK == "["
RBRACK == "]"
COLON  == ":"
COMMA  == ","
SPACE  == " "
NL     == "\n"

\* \d+
DigitToks == {"1", "2"}

\* [a-zA-Z_][a-zA-Z0-9_]*
IdentToks ==
    {"a", "x", "k", "t1", "t2", "None", "True", "False", "null", "true", "false",
     "type", "int", "string", "object", "code", "status", "ok",
     "properties", "required", "additionalProperties", "description",
     "enum", "anyof", "anyOf", "oneOf", "allOf", "default", "title",
     "Name", "Description", "Parameters", "Output", "none",
     "integer", "number", "array", "boolean"}

\* \w
IsWord(c) == c \in DigitToks \cup IdentToks

\* \s
IsSpace(c) == c \in {SPACE, NL}

RECURSIVE SkipSpace(_, _)
SkipSpace(t, i) ==
    IF i < Len(t) /\ IsSpace(At(t, i)) THEN SkipSpace(t, i + 1) ELSE i

\* The end of the maximal run of word tokens that starts at i (i itself when
\* t[i] is no word token): adjacent word tokens read as one word.
RECURSIVE WordEnd(_, _)
WordEnd(t, i) ==
    IF i < Len(t) /\ IsWord(At(t, i)) THEN WordEnd(t, i + 1) ELSE i

\* \b on both sides of the token at i
WholeWord(t, i) ==
    /\ (i = 0 \/ ~IsWord(At(t, i - 1)))
    /\ (i + 1 >= Len(t) \/ ~IsWord(At(t, i + 1)))

---------------------------------------------------------------------------
(* schema_validation_accuracy.extract_balanced_braces                      *)

\* The for loop of lines 131-154, from position i on, with the loop's locals.
RECURSIVE sva_scan_loop(_, _, _, _, _, _)
sva_scan_loop(t, brace_start, i, count, in_string, escape_next) ==
    IF i >= Len(t) THEN PyNone
    ELSE LET c == At(t, i) IN
      IF escape_next
        THEN sva_scan_loop(t, brace_start, i + 1, count, in_string, FALSE)
      ELSE IF c = BSL
        THEN sva_scan_loop(t, brace_start, i + 1, count, in_string, TRUE)
      ELSE IF c \in {DQ, SQ} /\ in_string = NoStr
        THEN sva_scan_loop(t, brace_start, i + 1, count, c, FALSE)
      ELSE IF c = in_string
        THEN sva_scan_loop(t, brace_start, i + 1, count, NoStr, FALSE)
      ELSE IF in_string = NoStr /\ c = LBRACE
        THEN sva_scan_loop(t, brace_start, i + 1, count + 1, in_string, FALSE)
      ELSE IF in_string = NoStr /\ c = RBRACE
        THEN IF count - 1 = 0
               THEN PyStr(Slice(t, brace_start, i + 1))
               ELSE sva_scan_loop(t, brace_start, i + 1, count - 1, in_string, FALSE)
      ELSE sva_scan_loop(t, brace_start, i + 1, count, in_string, FALSE)

\* A scanner that closes a string at any quote character.
sva_extract_any_quote_closes(t, start) ==
    LET RECURSIVE loop(_, _, _, _)
        loop(i, count, in_str, esc) ==
          IF i >= Len(t) THEN PyNone
          ELSE LET c == At(t, i) IN
            IF esc THEN loop(i + 1, count, in_str, FALSE)
            ELSE IF c = BSL THEN loop(i + 1, count, in_str, TRUE)
            ELSE IF c \in {DQ, SQ} THEN loop(i + 1, count, ~in_str, FALSE)
            ELSE IF ~in_str /\ c = LBRACE THEN loop(i + 1, count + 1, in_str, FALSE)
            ELSE IF ~in_str /\ c = RBRACE
              THEN IF count - 1 = 0
                     THEN PyStr(Slice(t, Find(t, LBRACE, start), i + 1))
                     ELSE loop(i + 1, count - 1, in_str, FALSE)
            ELSE loop(i + 1, count, in_str, FALSE)
    IN IF Find(t, LBRACE, start) = -1 THEN PyNone
       ELSE loop(Find(t, LBRACE, start), 0, FALSE, FALSE)

sva_extract_balanced_braces(t, start) ==
    LET brace_start == Find(t, LBRACE, start) IN
    IF brace_start = -1 THEN PyNone
    ELSE sva_scan_loop(t, brace_start, brace_start, 0, NoStr, FALSE)

---------------------------------------------------------------------------
(* normalize_tool_schema.normalize_quotes and extract_balanced_braces      *)

\* Lines 356-381, one turn of the while loop on the character at i: what
\* the turn appends to result
nq_appended(t, i, string_char) ==
    LET c == At(t, i) IN
    IF string_char = NoStr
      THEN IF c = SQ THEN <<DQ>> ELSE <<c>>
    ELSE IF c = BSL /\ i + 1 < Len(t) THEN <<c, At(t, i + 1)>>
    ELSE IF c = string_char THEN <<DQ>>
    ELSE <<c>>

\* ... the string_char it leaves (NoStr outside a string)
nq_string_char(t, i, string_char) ==
    LET c == At(t, i) IN
    IF string_char = NoStr
      THEN IF c \in {DQ, SQ} THEN c ELSE NoStr
    ELSE IF c = BSL /\ i + 1 < Len(t) THEN string_char
    ELSE IF c = string_char THEN NoStr
    ELSE string_char

\* ... and the position it moves to
nq_advance(t, i, string_char) ==
    IF string_char # NoStr /\ At(t, i) = BSL /\ i + 1 < Len(t) THEN i + 2
    ELSE i + 1

\* The while loop of lines 353-383: the output from position i on.
RECURSIVE nq_loop(_, _, _)
nq_loop(t, i, string_char) ==
    IF i >= Len(t) THEN <<>>
    ELSE nq_appended(t, i, string_char)
           \o nq_loop(t, nq_advance(t, i, string_char),
                      nq_string_char(t, i, string_char))

\* A conversion that closes a string at either quote character
normalize_quotes_any_quote_closes(t) ==
    LET RECURSIVE loop(_, _)
        loop(i, in_string) ==
          IF i >= Len(t) THEN <<>>
          ELSE LET c == At(t, i) IN
            IF in_string /\ c = BSL /\ i + 1 < Len(t)
              THEN <<c, At(t, i + 1)>> \o loop(i + 2, in_string)
            ELSE IF c \in {DQ, SQ} THEN <<DQ>> \o loop(i + 1, ~in_string)
            ELSE <<c>> \o loop(i + 1, in_string)
    IN loop(0, FALSE)

normalize_quotes(t) == nq_loop(t, 0, NoStr)

\* The for loop of lines 414-435 (only the double quote toggles in_string).
RECURSIVE nts_scan_loop(_, _, _, _, _, _)
nts_scan_loop(t, brace_start, i, count, in_string, escape_next) ==
    IF i >= Len(t) THEN PyNone
    ELSE LET c == At(t, i) IN
      IF escape_next
        THEN nts_scan_loop(t, brace_start, i + 1, count, in_string, FALSE)
      ELSE IF c = BSL
        THEN nts_scan_loop(t, brace_start, i + 1, count, in_string, TRUE)
      ELSE IF c = DQ
        THEN nts_scan_loop(t, brace_start, i + 1, count, ~in_string, FALSE)
      ELSE IF ~in_string /\ c = LBRACE
        THEN nts_scan_loop(t, brace_start, i + 1, count + 1, in_string, FALSE)
      ELSE IF ~in_string /\ c = RBRACE
        THEN IF count - 1 = 0
               THEN PyStr(Slice(t, brace_start, i + 1))
               ELSE nts_scan_loop(t, brace_start, i + 1, count - 1, in_string, FALSE)
      ELSE nts_scan_loop(t, brace_start, i + 1, count, in_string, FALSE)

nts_extract_balanced_braces(t, start, normalize) ==
    LET t1 == IF normalize THEN normalize_quotes(t) ELSE t
        brace_start == Find(t1, LBRACE, start)
    IN IF brace_start = -1 THEN PyNone
       ELSE nts_scan_loop(t1, brace_start, brace_start, 0, FALSE, FALSE)

---------------------------------------------------------------------------
(* schema_validation_accuracy.fix_json_string                              *)

\* re.sub(r'([{,])\s*([a-zA-Z_][a-zA-Z0-9_]*)\s*:', ...): the position after
\* the match that starts at i, or -1 when none starts there.
KeyMatchEnd(t, i) ==
    IF i < Len(t) /\ At(t, i) \in {LBRACE, COMMA}
      THEN LET a == SkipSpace(t, i + 1)
               b == WordEnd(t, a)
               c == SkipSpace(t, b)
           IN IF b > a /\ At(t, a) \in IdentToks /\ c < Len(t) /\ At(t, c) = COLON
                THEN c + 1
                ELSE -1
      ELSE -1

\* Step 1: \1"\2": for every match, left to right.
RECURSIVE quote_bare_keys(_, _)
quote_bare_keys(t, i) ==
    IF i >= Len(t) THEN <<>>
    ELSE IF KeyMatchEnd(t, i) = -1 THEN <<At(t, i)>> \o quote_bare_keys(t, i + 1)
    ELSE LET a == SkipSpace(t, i + 1) IN
         <<At(t, i), DQ>> \o Slice(t, a, WordEnd(t, a)) \o <<DQ, COLON>>
            \o quote_bare_keys(t, KeyMatchEnd(t, i))

\* Step 2: the quote loop (the same statements as normalize_quotes).
single_to_double_quotes(t) == nq_loop(t, 0, NoStr)

\* Step 3: \bNone\b -> null, \bTrue\b -> true, \bFalse\b -> false
python_literals_to_json(t) ==
    [i \in 1..Len(t) |->
        IF ~WholeWord(t, i - 1) THEN t[i]
        ELSE IF t[i] = "None" THEN "null"
        ELSE IF t[i] = "True" THEN "true"
        ELSE IF t[i] = "False" THEN "false"
        ELSE t[i]]

\* Step 4: re.sub(r',\s*([\]\}])', r'\1', s)
RECURSIVE drop_trailing_commas(_, _)
drop_trailing_commas(t, i) ==
    IF i >= Len(t) THEN <<>>
    ELSE IF At(t, i) = COMMA
              /\ SkipSpace(t, i + 1) < Len(t)
              /\ At(t, SkipSpace(t, i + 1)) \in {RBRACK, RBRACE}
      THEN <<At(t, SkipSpace(t, i + 1))>>
             \o drop_trailing_commas(t, SkipSpace(t, i + 1) + 1)
    ELSE <<At(t, i)>> \o drop_trailing_commas(t, i + 1)

sva_fix_json_string(t) ==
    IF t = <<>> THEN t
    ELSE drop_trailing_commas(
           python_literals_to_json(
             single_to_double_quotes(quote_bare_keys(t, 0))), 0)

---------------------------------------------------------------------------
(* Python values, and the two library parsers the code calls.  A parser    *)
(* step yields [ok, v, i]: whether it parsed, the value, the next position.*)

PyInt(ds)   == <<"int", ds>>
PyBool(b)   == <<"bool", b>>
PyDict(ps)  == <<"dict", ps>>
PyList(es)  == <<"list", es>>
PySet(S)    == <<"set", S>>
PyTuple(es) == <<"tuple", es>>
Raised      == <<"raised">>

IsDict(v) == v[1] = "dict"
IsSet(v)  == v[1] = "set"
IsList(v) == v[1] = "list"
Hashable(v) == v[1] \in {"none", "str", "int", "bool"}

\* Python compares True with 1 (and False with 0) as equal keys.
PyKey(v) ==
    IF v = PyBool(TRUE) THEN PyInt(<<"1">>)
    ELSE IF v = PyBool(FALSE) THEN PyInt(<<"0">>)
    ELSE v

\* d[k] = v on the pairs of a dict: a key met again keeps its place.
DictPut(ps, k, v) ==
    IF \E n \in 1..Len(ps) : PyKey(ps[n][1]) = PyKey(k)
      THEN [n \in 1..Len(ps) |->
              IF PyKey(ps[n][1]) = PyKey(k) THEN <<ps[n][1], v>> ELSE ps[n]]
      ELSE Append(ps, <<k, v>>)

Keys(d)       == [n \in 1..Len(d[2]) |-> d[2][n][1]]
HasKey(d, k)  == \E n \in 1..Len(d[2]) : d[2][n][1] = k
Get(d, k)     == d[2][CHOOSE n \in 1..Len(d[2]) : d[2][n][1] = k][2]

\* bool(v) of Python, for the values a parser returns
Truthy(v) ==
    CASE v[1] = "none" -> FALSE
      [] v[1] = "bool" -> v[2]
      [] v[1] = "set"  -> v[2] # {}
      [] v[1] = "int"  -> v[2] # <<"0">>
      [] OTHER         -> v[2] # <<>>

ParseFail   == [ok |-> FALSE, v |-> PyNone, i |-> 0]
Parsed(v, i) == [ok |-> TRUE, v |-> v, i |-> i]

AllDigits(t, a, b) == b > a /\ \A n \in a..(b - 1) : At(t, n) \in DigitToks

\* json.loads (strict): the string whose opening quote is at i - 1.  Of the
\* escapes only \" and \\ are in the model's alphabet.
RECURSIVE json_string(_, _, _)
json_string(t, i, acc) ==
    IF i >= Len(t) THEN ParseFail
    ELSE LET c == At(t, i) IN
      IF c = DQ THEN Parsed(PyStr(acc), i + 1)
      ELSE IF c = NL THEN ParseFail
      ELSE IF c = BSL
        THEN IF i + 1 < Len(t) /\ At(t, i + 1) \in {DQ, BSL}
               THEN json_string(t, i + 2, Append(acc, At(t, i + 1)))
               ELSE ParseFail
      ELSE json_string(t, i + 1, Append(acc, c))

\* json.loads: the value that starts at i; the members of an object from the
\* key at i on; the elements of an array from the element at i on.
RECURSIVE json_value(_, _)
RECURSIVE json_members(_, _, _)
RECURSIVE json_elements(_, _, _)
json_value(t, i) ==
    IF i >= Len(t) THEN ParseFail
    ELSE LET c == At(t, i) IN
      IF c = LBRACE
        THEN LET j == SkipSpace(t, i + 1) IN
             IF j < Len(t) /\ At(t, j) = RBRACE THEN Parsed(PyDict(<<>>), j + 1)
             ELSE json_members(t, j, <<>>)
      ELSE IF c = LBRACK
        THEN LET j == SkipSpace(t, i + 1) IN
             IF j < Len(t) /\ At(t, j) = RBRACK THEN Parsed(PyList(<<>>), j + 1)
             ELSE json_elements(t, j, <<>>)
      ELSE IF c = DQ THEN json_string(t, i + 1, <<>>)
      ELSE IF IsWord(c)
        THEN LET e == WordEnd(t, i) IN
             IF e = i + 1 /\ c = "null" THEN Parsed(PyNone, e)
             ELSE IF e = i + 1 /\ c = "true" THEN Parsed(PyBool(TRUE), e)
             ELSE IF e = i + 1 /\ c = "false" THEN Parsed(PyBool(FALSE), e)
             ELSE IF AllDigits(t, i, e) THEN Parsed(PyInt(Slice(t, i, e)), e)
             ELSE ParseFail
      ELSE ParseFail

json_members(t, i, ps) ==
    IF i >= Len(t) \/ At(t, i) # DQ THEN ParseFail
    ELSE LET k == json_string(t, i + 1, <<>>) IN
      IF ~k.ok THEN ParseFail
      ELSE LET c == SkipSpace(t, k.i) IN
        IF c >= Len(t) \/ At(t, c) # COLON THEN ParseFail
        ELSE LET v == json_value(t, SkipSpace(t, c + 1)) IN
          IF ~v.ok THEN ParseFail
          ELSE LET n == SkipSpace(t, v.i) IN
            IF n >= Len(t) THEN ParseFail
            ELSE IF At(t, n) = RBRACE
              THEN Parsed(PyDict(DictPut(ps, k.v, v.v)), n + 1)
            ELSE IF At(t, n) = COMMA
              THEN json_members(t, SkipSpace(t, n + 1), DictPut(ps, k.v, v.v))
            ELSE ParseFail

json_elements(t, i, es) ==
    LET v == json_value(t, i) IN
    IF ~v.ok THEN ParseFail
    ELSE LET n == SkipSpace(t, v.i) IN
      IF n >= Len(t) THEN ParseFail
      ELSE IF At(t, n) = RBRACK THEN Parsed(PyList(Append(es, v.v)), n + 1)
      ELSE IF At(t, n) = COMMA
        THEN json_elements(t, SkipSpace(t, n + 1), Append(es, v.v))
      ELSE ParseFail

\* json.loads(t): the value, or Raised for any JSONDecodeError
json_loads(t) ==
    LET r == json_value(t, SkipSpace(t, 0)) IN
    IF r.ok /\ SkipSpace(t, r.i) = Len(t) THEN r.v ELSE Raised

\* Python's tokenizer between tokens: blanks anywhere, newlines only inside
\* brackets.  (The texts parsed in this model hold no backslash outside a
\* string literal; one is a syntax error here.)
RECURSIVE PySkip(_, _, _)
PySkip(t, i, nested) ==
    IF i >= Len(t) THEN i
    ELSE IF At(t, i) = SPACE \/ (nested /\ At(t, i) = NL) THEN PySkip(t, i + 1, nested)
    ELSE i

Triple(t, i, q) ==
    i + 2 < Len(t) /\ At(t, i) = q /\ At(t, i + 1) = q /\ At(t, i + 2) = q

\* A Python string literal's body from i on, opened by q (three of q when
\* triple).  A backslash before a word token is outside the model's alphabet.
RECURSIVE py_string_body(_, _, _, _, _)
py_string_body(t, i, q, triple, acc) ==
    IF i >= Len(t) THEN ParseFail
    ELSE LET c == At(t, i) IN
      IF triple /\ Triple(t, i, q) THEN Parsed(PyStr(acc), i + 3)
      ELSE IF ~triple /\ c = q THEN Parsed(PyStr(acc), i + 1)
      ELSE IF ~triple /\ c = NL THEN ParseFail
      ELSE IF c = BSL
        THEN IF i + 1 >= Len(t) THEN ParseFail
             ELSE LET d == At(t, i + 1) IN
               IF d \in {DQ, SQ, BSL}
                 THEN py_string_body(t, i + 2, q, triple, Append(acc, d))
               ELSE IF d = NL THEN py_string_body(t, i + 2, q, triple, acc)
               ELSE IF IsWord(d) THEN ParseFail
               ELSE py_string_body(t, i + 2, q, triple, acc \o <<c, d>>)
      ELSE py_string_body(t, i + 1, q, triple, Append(acc, c))

py_string(t, i) ==
    IF Triple(t, i, At(t, i))
      THEN py_string_body(t, i + 3, At(t, i), TRUE, <<>>)
      ELSE py_string_body(t, i + 1, At(t, i), FALSE, <<>>)

\* Adjacent string literals are one string: the literals from i on, added to acc.
RECURSIVE py_strings(_, _, _, _)
py_strings(t, i, nested, acc) ==
    LET r == py_string(t, i) IN
    IF ~r.ok THEN ParseFail
    ELSE LET n == PySkip(t, r.i, nested) IN
      IF n < Len(t) /\ At(t, n) \in {DQ, SQ}
        THEN py_strings(t, n, nested, acc \o r.v[2])
        ELSE Parsed(PyStr(acc \o r.v[2]), r.i)

\* ast.literal_eval: the expression at i; the rest of a dict display from the
\* key at i on; the rest of a set or list display from the element at i on.
RECURSIVE py_atom(_, _, _)
RECURSIVE py_dict_items(_, _, _)
RECURSIVE py_elements(_, _, _, _)
py_atom(t, i, nested) ==
    IF i >= Len(t) THEN ParseFail
    ELSE LET c == At(t, i) IN
      IF c = LBRACE
        THEN LET j == PySkip(t, i + 1, TRUE) IN
             IF j < Len(t) /\ At(t, j) = RBRACE THEN Parsed(PyDict(<<>>), j + 1)
             ELSE LET first == py_atom(t, j, TRUE) IN
               IF ~first.ok THEN ParseFail
               ELSE LET n == PySkip(t, first.i, TRUE) IN
                 IF n < Len(t) /\ At(t, n) = COLON
                   THEN py_dict_items(t, j, <<>>)
                   ELSE py_elements(t, j, RBRACE, <<>>)
      ELSE IF c = LBRACK
        THEN LET j == PySkip(t, i + 1, TRUE) IN
             IF j < Len(t) /\ At(t, j) = RBRACK THEN Parsed(PyList(<<>>), j + 1)
             ELSE py_elements(t, j, RBRACK, <<>>)
      ELSE IF c \in {DQ, SQ} THEN py_strings(t, i, nested, <<>>)
      ELSE IF IsWord(c)
        THEN LET e == WordEnd(t, i) IN
             IF e = i + 1 /\ c = "None" THEN Parsed(PyNone, e)
             ELSE IF e = i + 1 /\ c = "True" THEN Parsed(PyBool(TRUE), e)
             ELSE IF e = i + 1 /\ c = "False" THEN Parsed(PyBool(FALSE), e)
             ELSE IF AllDigits(t, i, e) THEN Parsed(PyInt(Slice(t, i, e)), e)
             ELSE ParseFail
      ELSE ParseFail

py_dict_items(t, i, ps) ==
    LET k == py_atom(t, i, TRUE) IN
    IF ~k.ok \/ ~Hashable(k.v) THEN ParseFail
    ELSE LET c == PySkip(t, k.i, TRUE) IN
      IF c >= Len(t) \/ At(t, c) # COLON THEN ParseFail
      ELSE LET v == py_atom(t, PySkip(t, c + 1, TRUE), TRUE) IN
        IF ~v.ok THEN ParseFail
        ELSE LET n == PySkip(t, v.i, TRUE)
                 m == PySkip(t, n + 1, TRUE)
             IN
          IF n >= Len(t) THEN ParseFail
          ELSE IF At(t, n) = RBRACE
            THEN Parsed(PyDict(DictPut(ps, k.v, v.v)), n + 1)
          ELSE IF At(t, n) # COMMA THEN ParseFail
          ELSE IF m < Len(t) /\ At(t, m) = RBRACE
            THEN Parsed(PyDict(DictPut(ps, k.v, v.v)), m + 1)
          ELSE py_dict_items(t, m, DictPut(ps, k.v, v.v))

\* close is "}" for a set display (hashable elements, a set of them) and "]"
\* for a list display.
py_elements(t, i, close, es) ==
    LET v == py_atom(t, i, TRUE)
        done(all) == IF close = RBRACE
                       THEN PySet({PyKey(all[n]) : n \in 1..Len(all)})
                       ELSE PyList(all)
    IN
    IF ~v.ok \/ (close = RBRACE /\ ~Hashable(v.v)) THEN ParseFail
    ELSE LET n == PySkip(t, v.i, TRUE)
             m == PySkip(t, n + 1, TRUE)
         IN
      IF n >= Len(t) THEN ParseFail
      ELSE IF At(t, n) = close THEN Parsed(done(Append(es, v.v)), n + 1)
      ELSE IF At(t, n) # COMMA THEN ParseFail
      ELSE IF m < Len(t) /\ At(t, m) = close
        THEN Parsed(done(Append(es, v.v)), m + 1)
      ELSE py_elements(t, m, close, Append(es, v.v))

\* The expression list outside any bracket: one expression, or a tuple when
\* a comma follows an expression.
RECURSIVE py_top_level(_, _, _)
py_top_level(t, i, es) ==
    LET v == py_atom(t, i, FALSE) IN
    IF ~v.ok THEN ParseFail
    ELSE LET n == PySkip(t, v.i, FALSE)
             m == PySkip(t, n + 1, FALSE)
         IN
      IF n < Len(t) /\ At(t, n) = COMMA
        THEN IF m >= Len(t) \/ At(t, m) = NL
               THEN Parsed(PyTuple(Append(es, v.v)), m)
               ELSE py_top_level(t, m, Append(es, v.v))
      ELSE IF es = <<>> THEN Parsed(v.v, n)
      ELSE Parsed(PyTuple(Append(es, v.v)), n)

\* The end of the leading blanks: str.lstrip(" \t")
RECURSIVE SkipBlanks(_, _)
SkipBlanks(t, i) ==
    IF i < Len(t) /\ At(t, i) = SPACE THEN SkipBlanks(t, i + 1) ELSE i

\* ast.literal_eval(t): the value, or Raised for any exception (an indented
\* first or last line, a syntax error, a name, an unhashable key or element)
literal_eval(t) ==
    LET b == SkipBlanks(t, 0)
        j == SkipSpace(t, b)
        r == py_top_level(t, j, <<>>)
    IN IF j > b /\ At(t, j - 1) = SPACE THEN Raised
       ELSE IF r.ok /\ SkipSpace(t, r.i) = Len(t)
                    /\ (r.i = Len(t) \/ t[Len(t)] = NL) THEN r.v
       ELSE Raised

---------------------------------------------------------------------------
(* schema_validation_accuracy.parse_schema_string                          *)

\* str.replace of one token by another, everywhere
ReplaceTok(t, old, new) == [n \in 1..Len(t) |-> IF t[n] = old THEN new ELSE t[n]]

\* Lines 90-94, 97-100 and 103-108: what each method yields, Raised when it
\* raises.
sva_method1(t) == json_loads(sva_fix_json_string(t))
sva_method2(t) == literal_eval(t)
sva_method3(t) == json_loads(ReplaceTok(ReplaceTok(t, "None", "null"), SQ, DQ))

\* The try blocks in the order of the source
sva_method(n, t) ==
    CASE n = 1 -> sva_method1(t)
      [] n = 2 -> sva_method2(t)
      [] n = 3 -> sva_method3(t)

\* What the first try block that does not raise returns, None when each
\* raises
first_returned(returned) ==
    IF \A n \in DOMAIN returned : returned[n] = Raised THEN PyNone
    ELSE returned[CHOOSE n \in DOMAIN returned :
                    /\ returned[n] # Raised
                    /\ \A m \in 1..(n - 1) : returned[m] = Raised]

sva_parse_schema_string(t) ==
    first_returned([n \in 1..3 |-> sva_method(n, t)])

---------------------------------------------------------------------------
(* normalize_tool_schema: the repairs fix_json_string applies              *)

\* str.replace(pat, rep) for a pattern of several tokens, from i on
RECURSIVE ReplaceSeq(_, _, _, _)
ReplaceSeq(t, i, pat, rep) ==
    IF i >= Len(t) THEN <<>>
    ELSE IF i + Len(pat) <= Len(t) /\ Slice(t, i, i + Len(pat)) = pat
      THEN rep \o ReplaceSeq(t, i + Len(pat), pat, rep)
    ELSE <<At(t, i)>> \o ReplaceSeq(t, i + 1, pat, rep)

\* str.strip(), str.lstrip(): white space off the ends
RECURSIVE RStrip(_)
RStrip(t) ==
    IF t # <<>> /\ IsSpace(t[Len(t)]) THEN RStrip(SubSeq(t, 1, Len(t) - 1)) ELSE t

LStrip(t) == Slice(t, SkipSpace(t, 0), Len(t))
Strip(t)  == RStrip(LStrip(t))

\* The full-width characters of the table (lines 25-37) are tokens named by
\* their code point; the ASCII double quote maps to itself.
FullWidth(c) ==
    CASE c = "U+FF0C" -> COMMA
      [] c = "U+FF1A" -> COLON
      [] c = "U+FF1B" -> ";"
      [] OTHER -> c

FullWidthBrackets(c) ==
    CASE c = "U+FF08" -> "("
      [] c = "U+FF09" -> ")"
      [] c = "U+3010" -> LBRACK
      [] c = "U+3011" -> RBRACK
      [] c = "U+300A" -> "<"
      [] c = "U+300B" -> ">"
      [] OTHER -> c

\* The key that lines 30-31 spell: the three quotes of line 30 open a string
\* that the three quotes of line 31 close, so the key is the text between
\* them, a colon, a blank, "'", a comma, a newline and eight blanks.
TripleQuotedKey ==
    <<COLON, SPACE, DQ, SQ, DQ, COMMA, NL,
      SPACE, SPACE, SPACE, SPACE, SPACE, SPACE, SPACE, SPACE>>

\* The replacements in the order of the table
fix_chinese_punctuation(t) ==
    LET s1 == [n \in 1..Len(t) |-> FullWidth(t[n])]
        s2 == ReplaceSeq(s1, 0, TripleQuotedKey, <<SQ>>)
    IN [n \in 1..Len(s2) |-> FullWidthBrackets(s2[n])]

\* (["\'])\s*,\s*(\{) : the position of the "{" of a match that starts at i,
\* or -1
QuoteCommaBrace(t, i) ==
    IF i < Len(t) /\ At(t, i) \in {DQ, SQ}
      THEN LET a == SkipSpace(t, i + 1) IN
           IF a < Len(t) /\ At(t, a) = COMMA
                /\ SkipSpace(t, a + 1) < Len(t)
                /\ At(t, SkipSpace(t, a + 1)) = LBRACE
             THEN SkipSpace(t, a + 1)
             ELSE -1
      ELSE -1

\* re.sub(r'(["\'])\s*,\s*(\{)', r'\1},\2', s), from i on
RECURSIVE close_before_comma_brace(_, _)
close_before_comma_brace(t, i) ==
    IF i >= Len(t) THEN <<>>
    ELSE IF QuoteCommaBrace(t, i) # -1
      THEN <<At(t, i), RBRACE, COMMA, LBRACE>>
             \o close_before_comma_brace(t, QuoteCommaBrace(t, i) + 1)
    ELSE <<At(t, i)>> \o close_before_comma_brace(t, i + 1)

fix_bracket_mismatch(t) == close_before_comma_brace(t, 0)

\* ["\']key["\']\s*:\s*open : the position of open for a match that starts
\* at i, or -1 (the two quotes need not be the same)
QuotedKeyOpen(t, i, keys, open) ==
    IF i + 2 < Len(t) /\ At(t, i) \in {DQ, SQ} /\ At(t, i + 1) \in keys
          /\ At(t, i + 2) \in {DQ, SQ}
      THEN LET a == SkipSpace(t, i + 3) IN
           IF a < Len(t) /\ At(t, a) = COLON
                /\ SkipSpace(t, a + 1) < Len(t)
                /\ At(t, SkipSpace(t, a + 1)) = open
             THEN SkipSpace(t, a + 1)
             ELSE -1
      ELSE -1

\* fix_enum_values.  The pattern ignores case; "enum" is the one casing in
\* the model's words.
EnumKeys == {"enum"}

\* Lines 209-228: the elements of an enum array's content, split at the
\* commas outside strings, each stripped.
RECURSIVE enum_items(_, _, _, _, _)
enum_items(array_content, n, current, string_char, items) ==
    IF n > Len(array_content)
      THEN IF current # <<>> THEN Append(items, Strip(current)) ELSE items
    ELSE LET c == array_content[n] IN
      IF string_char = NoStr
        THEN IF c \in {DQ, SQ}
               THEN enum_items(array_content, n + 1, Append(current, c), c, items)
             ELSE IF c = COMMA
               THEN IF current # <<>>
                      THEN enum_items(array_content, n + 1, <<>>, NoStr,
                                      Append(items, Strip(current)))
                      ELSE enum_items(array_content, n + 1, current, NoStr, items)
             ELSE enum_items(array_content, n + 1, Append(current, c), NoStr, items)
      ELSE enum_items(array_content, n + 1, Append(current, c),
                      IF c = string_char THEN NoStr ELSE string_char, items)

\* Lines 231-243: an element that does not start with a quote gets double
\* quotes, empty elements are dropped, the rest is joined by commas.
RECURSIVE enum_join(_, _, _)
enum_join(items, n, first) ==
    IF n > Len(items) THEN <<>>
    ELSE LET item == Strip(items[n]) IN
      IF item = <<>> THEN enum_join(items, n + 1, first)
      ELSE (IF first THEN <<>> ELSE <<COMMA>>)
             \o (IF item[1] \in {DQ, SQ} THEN item ELSE <<DQ>> \o item \o <<DQ>>)
             \o enum_join(items, n + 1, FALSE)

fix_enum_array(array_content) ==
    enum_join(enum_items(array_content, 1, <<>>, NoStr, <<>>), 1, TRUE)

\* re.sub of (["\']enum["\']\s*:\s*\[)([^\]]+)(\]), from i on
RECURSIVE fix_enum_from(_, _)
fix_enum_from(t, i) ==
    IF i >= Len(t) THEN <<>>
    ELSE LET open == QuotedKeyOpen(t, i, EnumKeys, LBRACK)
             close == IF open = -1 THEN -1 ELSE Find(t, RBRACK, open + 1)
         IN IF open # -1 /\ close > open + 1
              THEN Slice(t, i, open + 1)
                     \o fix_enum_array(Slice(t, open + 1, close))
                     \o <<RBRACK>> \o fix_enum_from(t, close + 1)
              ELSE <<At(t, i)>> \o fix_enum_from(t, i + 1)

fix_enum_values(t) == fix_enum_from(t, 0)

\* fix_properties_closure
TopLevelKeys == {"required", "type", "additionalProperties", "description"}

\* re.search(r'["\']properties["\']\s*:\s*\{', s): the "{" of the first match
RECURSIVE PropertiesOpen(_, _)
PropertiesOpen(t, i) ==
    IF i >= Len(t) THEN -1
    ELSE IF QuotedKeyOpen(t, i, {"properties"}, LBRACE) # -1
      THEN QuotedKeyOpen(t, i, {"properties"}, LBRACE)
    ELSE PropertiesOpen(t, i + 1)

\* Lines 103-105: what follows the comma at i starts with "key" or with 'key
StartsTopLevelKey(t, i) ==
    LET r == SkipSpace(t, i + 1) IN
    \/ r + 2 < Len(t) /\ At(t, r) = DQ /\ At(t, r + 1) \in TopLevelKeys
         /\ At(t, r + 2) = DQ
    \/ r + 1 < Len(t) /\ At(t, r) = SQ /\ At(t, r + 1) \in TopLevelKeys

\* The while loop of lines 73-112
RECURSIVE properties_loop(_, _, _, _, _, _)
properties_loop(t, i, depth, in_string, escape, last_valid_close) ==
    IF i >= Len(t) THEN t
    ELSE LET c == At(t, i) IN
      IF escape
        THEN properties_loop(t, i + 1, depth, in_string, FALSE, last_valid_close)
      ELSE IF c = BSL
        THEN properties_loop(t, i + 1, depth, in_string, TRUE, last_valid_close)
      ELSE IF c \in {DQ, SQ} /\ in_string = NoStr
        THEN properties_loop(t, i + 1, depth, c, FALSE, last_valid_close)
      ELSE IF c = in_string
        THEN properties_loop(t, i + 1, depth, NoStr, FALSE, last_valid_close)
      ELSE IF in_string # NoStr
        THEN properties_loop(t, i + 1, depth, in_string, FALSE, last_valid_close)
      ELSE IF c = LBRACE
        THEN properties_loop(t, i + 1, depth + 1, in_string, FALSE, last_valid_close)
      ELSE IF c = RBRACE
        THEN IF depth - 1 = 0 THEN t
             ELSE properties_loop(t, i + 1, depth - 1, in_string, FALSE,
                                  IF depth - 1 = 1 THEN i ELSE last_valid_close)
      ELSE IF c = COMMA /\ depth = 1 /\ StartsTopLevelKey(t, i)
        THEN IF last_valid_close # -1
               THEN Slice(t, 0, last_valid_close + 1) \o <<RBRACE>>
                      \o Slice(t, last_valid_close + 1, Len(t))
               ELSE t
      ELSE properties_loop(t, i + 1, depth, in_string, FALSE, last_valid_close)

fix_properties_closure(t) ==
    IF PropertiesOpen(t, 0) = -1 THEN t
    ELSE properties_loop(t, PropertiesOpen(t, 0), 0, NoStr, FALSE, -1)

\* fix_anyof_structure.  The pattern ignores case; these are the casings in
\* the model's words.
CombinatorKeys == {"anyof", "anyOf", "oneOf", "allOf"}

\* (["\'])(anyof|oneof|allof)\1\s*:\s*\[ : the position of the "[" of a match
\* that starts at i, or -1
CombinatorOpen(t, i) ==
    IF i + 2 < Len(t) /\ At(t, i) \in {DQ, SQ} /\ At(t, i + 1) \in CombinatorKeys
          /\ At(t, i + 2) = At(t, i)
      THEN LET a == SkipSpace(t, i + 3) IN
           IF a < Len(t) /\ At(t, a) = COLON
                /\ SkipSpace(t, a + 1) < Len(t)
                /\ At(t, SkipSpace(t, a + 1)) = LBRACK
             THEN SkipSpace(t, a + 1)
             ELSE -1
      ELSE -1

\* ([^\]]+?)(\]|$) after the "[" at open: the position where the content
\* ends (the first "]"; with none, the end of the text, or the place before
\* a final newline), or -1 when the content would be empty.
CombinatorContentEnd(t, open) ==
    LET close == Find(t, RBRACK, open + 1) IN
    IF close # -1 THEN (IF close > open + 1 THEN close ELSE -1)
    ELSE IF t[Len(t)] = NL /\ Len(t) - 1 > open + 1 THEN Len(t) - 1
    ELSE IF Len(t) > open + 1 THEN Len(t)
    ELSE -1

\* The end of the maximal run of tokens other than "," "]" "}" from i on
RECURSIVE ValueEnd(_, _)
ValueEnd(t, i) ==
    IF i < Len(t) /\ At(t, i) \notin {COMMA, RBRACK, RBRACE}
      THEN ValueEnd(t, i + 1) ELSE i

\* ,\s*(["\'])prop\1\s*:\s*([^,\]}]+) : the end of a match that starts at i,
\* or -1
OuterPropEnd(t, i, prop) ==
    IF i < Len(t) /\ At(t, i) = COMMA
      THEN LET a == SkipSpace(t, i + 1) IN
           IF a + 2 < Len(t) /\ At(t, a) \in {DQ, SQ} /\ At(t, a + 1) = prop
                /\ At(t, a + 2) = At(t, a)
                /\ SkipSpace(t, a + 3) < Len(t)
                /\ At(t, SkipSpace(t, a + 3)) = COLON
                /\ ValueEnd(t, SkipSpace(t, a + 3) + 1) > SkipSpace(t, a + 3) + 1
             THEN ValueEnd(t, SkipSpace(t, a + 3) + 1)
             ELSE -1
      ELSE -1

\* list(re.finditer(...))[-1]: the start of the last match found from i on,
\* or last when there is none
RECURSIVE LastOuterProp(_, _, _, _)
LastOuterProp(t, i, prop, last) ==
    IF i >= Len(t) THEN last
    ELSE IF OuterPropEnd(t, i, prop) # -1
      THEN LastOuterProp(t, OuterPropEnd(t, i, prop), prop, i)
    ELSE LastOuterProp(t, i + 1, prop, last)

\* Lines 151-160, for the properties in props: [remaining, outer_props]
RECURSIVE hoist_outer_props(_, _, _)
hoist_outer_props(remaining, props, outer) ==
    IF props = <<>> THEN [remaining |-> remaining, outer |-> outer]
    ELSE LET m == LastOuterProp(remaining, 0, Head(props), -1)
             e == OuterPropEnd(remaining, m, Head(props))
         IN IF m = -1 THEN hoist_outer_props(remaining, Tail(props), outer)
            ELSE hoist_outer_props(
                   Slice(remaining, 0, m) \o Slice(remaining, e, Len(remaining)),
                   Tail(props), outer \o Slice(remaining, m, e))

\* str.rstrip(',')
RECURSIVE RStripCommas(_)
RStripCommas(t) ==
    IF t # <<>> /\ t[Len(t)] = COMMA THEN RStripCommas(SubSeq(t, 1, Len(t) - 1))
    ELSE t

Count(t, c) == Cardinality({n \in 1..Len(t) : t[n] = c})

LastIndex(t, c) == CHOOSE n \in 1..Len(t) : t[n] = c /\ \A m \in (n + 1)..Len(t) : t[m] # c

\* Lines 172-176: the last "}" removed, k times
RECURSIVE drop_last_braces(_, _)
drop_last_braces(t, k) ==
    IF k <= 0 \/ Count(t, RBRACE) = 0 THEN t
    ELSE drop_last_braces(
           SubSeq(t, 1, LastIndex(t, RBRACE) - 1)
             \o SubSeq(t, LastIndex(t, RBRACE) + 1, Len(t)), k - 1)

\* fix_array (lines 137-183) for the key between the quotes and the content
fix_array(quote, key, array_content) ==
    LET fixed == close_before_comma_brace(array_content, 0)
        h == hoist_outer_props(fixed, <<"default", "title", "description">>, <<>>)
        stripped == Strip(RStripCommas(h.remaining))
        remaining == drop_last_braces(stripped,
                        Count(stripped, RBRACE) - Count(stripped, LBRACE))
    IN <<quote, key, quote, COLON, LBRACK>> \o remaining \o <<RBRACK>> \o h.outer

\* re.sub(pattern, fix_array, s, flags=re.IGNORECASE), from i on
RECURSIVE fix_anyof_from(_, _)
fix_anyof_from(t, i) ==
    IF i >= Len(t) THEN <<>>
    ELSE LET open == CombinatorOpen(t, i)
             e == IF open = -1 THEN -1 ELSE CombinatorContentEnd(t, open)
         IN IF e # -1
              THEN fix_array(At(t, i), At(t, i + 1), Slice(t, open + 1, e))
                     \o fix_anyof_from(t, IF e < Len(t) /\ At(t, e) = RBRACK
                                            THEN e + 1 ELSE e)
              ELSE <<At(t, i)>> \o fix_anyof_from(t, i + 1)

fix_anyof_structure(t) == fix_anyof_from(t, 0)

\* normalize_tool_schema.fix_json_string: the repairs in the order of lines
\* 267-327; the last four steps are those of schema_validation_accuracy.
nts_fix_json_string(t) ==
    IF t = <<>> THEN t
    ELSE drop_trailing_commas(
           python_literals_to_json(
             single_to_double_quotes(
               quote_bare_keys(
                 fix_anyof_structure(
                   fix_bracket_mismatch(
                     fix_properties_closure(
                       fix_enum_values(
                         fix_chinese_punctuation(t))))), 0))), 0)

---------------------------------------------------------------------------
(* normalize_tool_schema.parse_schema_string                               *)

\* "if result and isinstance(result, dict)"
NonEmptyDict(v) == IsDict(v) /\ v[2] # <<>>

\* What each strategy's try block computes (Raised when it raises), for the
\* stripped text
nts_strategy1(t) == json_loads(nts_fix_json_string(normalize_quotes(t)))
nts_strategy2(t) == literal_eval(t)
nts_strategy3(t) ==
    json_loads(normalize_quotes(
      ReplaceTok(ReplaceTok(ReplaceTok(t, "None", "null"), "True", "true"),
                 "False", "false")))
nts_strategy4(t) == json_loads(nts_fix_json_string(t))

\* The four strategies with the literal evaluation tried first.
nts_strategy_literal_first(n, t) ==
    CASE n = 1 -> nts_strategy2(t)
      [] n = 2 -> nts_strategy1(t)
      [] n = 3 -> nts_strategy3(t)
      [] n = 4 -> nts_strategy4(t)

\* The try blocks in the order of the source
nts_strategy(n, t) ==
    CASE n = 1 -> nts_strategy1(t)
      [] n = 2 -> nts_strategy2(t)
      [] n = 3 -> nts_strategy3(t)
      [] n = 4 -> nts_strategy4(t)

\* The value of the first strategy that gives a non-empty mapping, None
\* when none does
first_accepted(returned) ==
    IF \A n \in DOMAIN returned : ~NonEmptyDict(returned[n]) THEN PyNone
    ELSE returned[CHOOSE n \in DOMAIN returned :
                    /\ NonEmptyDict(returned[n])
                    /\ \A m \in 1..(n - 1) : ~NonEmptyDict(returned[m])]

stripped_schema(t) ==
    IF t = <<>> THEN PyNone
    ELSE first_accepted([n \in 1..4 |-> nts_strategy(n, t)])

nts_parse_schema_string(schema_str) == stripped_schema(Strip(schema_str))

---------------------------------------------------------------------------
(* schema_validation_accuracy: complete_output_schema, parse_tool_schema   *)
(* and validate_against_schema                                             *)

Str(w) == PyStr(<<w>>)

\* The values "k in v" of Python is defined on (it raises on the others)
IsContainer(v) == v[1] \in {"dict", "set", "list", "tuple", "str"}

\* "k in v" of Python, for a container v
PyContains(v, k) ==
    CASE v[1] = "dict"  -> HasKey(v, k)
      [] v[1] = "set"   -> PyKey(k) \in v[2]
      [] v[1] \in {"list", "tuple"} -> \E n \in 1..Len(v[2]) : v[2][n] = k
      [] v[1] = "str"   ->
           \E a \in 0..Len(v[2]) : \E b \in a..Len(v[2]) : Slice(v[2], a, b) = k[2]

\* A completion whose wrapper has no "type"
complete_without_type(raw_schema) ==
    IF raw_schema = PyNone THEN PyNone
    ELSE IF ~IsContainer(raw_schema) THEN Raised
    ELSE IF PyContains(raw_schema, Str("type")) THEN raw_schema
    ELSE IF ~IsDict(raw_schema) THEN Raised
    ELSE PyDict(<< <<Str("properties"), raw_schema>>,
                   <<Str("required"), PyList(Keys(raw_schema))>>,
                   <<Str("additionalProperties"), PyBool(FALSE)>> >>)

\* A completion that wraps every mapping, whether it has a "type" or not
complete_always_wraps(raw_schema) ==
    IF raw_schema = PyNone THEN PyNone
    ELSE IF ~IsDict(raw_schema) THEN Raised
    ELSE PyDict(<< <<Str("type"), Str("object")>>,
                   <<Str("properties"), raw_schema>>,
                   <<Str("required"), PyList(Keys(raw_schema))>>,
                   <<Str("additionalProperties"), PyBool(FALSE)>> >>)

\* complete_output_schema: Raised when "type" in raw_schema or
\* raw_schema.keys() raises.
complete_output_schema(raw_schema) ==
    IF raw_schema = PyNone THEN PyNone
    ELSE IF ~IsContainer(raw_schema) THEN Raised
    ELSE IF PyContains(raw_schema, Str("type")) THEN raw_schema
    ELSE IF ~IsDict(raw_schema) THEN Raised
    ELSE PyDict(<< <<Str("type"), Str("object")>>,
                   <<Str("properties"), raw_schema>>,
                   <<Str("required"), PyList(Keys(raw_schema))>>,
                   <<Str("additionalProperties"), PyBool(FALSE)>> >>)

RECURSIVE DigitsEnd(_, _)
DigitsEnd(t, i) ==
    IF i < Len(t) /\ At(t, i) \in DigitToks THEN DigitsEnd(t, i + 1) ELSE i

\* \d+\.\s+Name: matches at position i
HeaderAt(t, i) ==
    LET d == DigitsEnd(t, i)
        n == SkipSpace(t, d + 1)
    IN /\ d > i
       /\ d < Len(t)
       /\ At(t, d) = "."
       /\ n > d + 1
       /\ n + 1 < Len(t)
       /\ At(t, n) = "Name"
       /\ At(t, n + 1) = COLON

\* re.split(r'\n(?=\d+\.\s+Name:)', t): the pieces between the newlines
\* that a header follows
RECURSIVE split_blocks(_, _, _, _)
split_blocks(t, i, start, acc) ==
    IF i >= Len(t) THEN Append(acc, Slice(t, start, Len(t)))
    ELSE IF At(t, i) = NL /\ HeaderAt(t, i + 1)
      THEN split_blocks(t, i + 1, i + 1, Append(acc, Slice(t, start, i)))
    ELSE split_blocks(t, i + 1, start, acc)

\* re.search(r'Name:\s*(\w+)', block): group 1 of the first match from i
\* on, the empty sequence when there is no match
RECURSIVE name_match(_, _)
name_match(block, i) ==
    LET n == SkipSpace(block, i + 2) IN
    IF i + 1 >= Len(block) THEN <<>>
    ELSE IF At(block, i) = "Name" /\ At(block, i + 1) = COLON
            /\ WordEnd(block, n) > n
      THEN Slice(block, n, WordEnd(block, n))
    ELSE name_match(block, i + 1)

\* block.find(label + ':')
RECURSIVE FindLabel(_, _, _)
FindLabel(block, label, i) ==
    IF i + 1 >= Len(block) THEN -1
    ELSE IF At(block, i) = label /\ At(block, i + 1) = COLON THEN i
    ELSE FindLabel(block, label, i + 1)

\* params_str / output_str: the span after the label, None when the label
\* or the span is missing
field_str(block, label) ==
    IF FindLabel(block, label, 0) = -1 THEN PyNone
    ELSE sva_extract_balanced_braces(block, FindLabel(block, label, 0))

\* input_schema / output_schema before completion
field_schema(span) ==
    IF span = PyNone THEN PyNone ELSE sva_parse_schema_string(span[2])

\* The block is skipped: it is blank or no name can be extracted from it
Skipped(block) == Strip(block) = <<>> \/ name_match(block, 0) = <<>>

\* The JSON Schema draft-7 type names and jsonschema's type checks
Draft7Types ==
    {"string", "number", "integer", "object", "array", "boolean", "null"}

is_type(instance, type) ==
    CASE type = "string"  -> instance[1] = "str"
      [] type = "integer" -> instance[1] = "int"
      [] type = "number"  -> instance[1] = "int"
      [] type = "object"  -> instance[1] = "dict"
      [] type = "array"   -> instance[1] = "list"
      [] type = "boolean" -> instance[1] = "bool"
      [] type = "null"    -> instance[1] = "none"

\* ensure_list(types)
TypeList(types) == IF IsList(types) THEN types[2] ELSE <<types>>

KnownType(ty) == IsStr(ty) /\ Len(ty[2]) = 1 /\ ty[2][1] \in Draft7Types

\* The "type" keyword: the types are tried in order until one fits; a type
\* name the validator does not know raises UnknownType ("RAISE").
RECURSIVE type_errors(_, _, _)
type_errors(types, n, instance) ==
    IF n > Len(types) THEN {"type"}
    ELSE IF ~KnownType(types[n]) THEN {"RAISE"}
    ELSE IF is_type(instance, types[n][2][1]) THEN {}
    ELSE type_errors(types, n + 1, instance)

\* Draft7Validator(schema).iter_errors(instance), for the keywords type,
\* properties, required and additionalProperties (any other key of the
\* schemas of this model is no draft-7 keyword and is ignored): the set of
\* the failing keywords, with "RAISE" in it when the walk raises.
RECURSIVE iter_errors(_, _)
iter_errors(schema, instance) ==
    IF schema = PyBool(TRUE) THEN {}
    ELSE IF schema = PyBool(FALSE) THEN {"false"}
    ELSE IF ~IsDict(schema) THEN {"RAISE"}
    ELSE UNION {
      LET k == schema[2][n][1]
          v == schema[2][n][2]
      IN
      IF k = Str("type") THEN type_errors(TypeList(v), 1, instance)
      ELSE IF k = Str("properties") THEN
        IF ~IsDict(instance) THEN {}
        ELSE IF ~IsDict(v) THEN {"RAISE"}
        ELSE UNION {IF HasKey(instance, v[2][m][1])
                      THEN iter_errors(v[2][m][2], Get(instance, v[2][m][1]))
                      ELSE {} : m \in 1..Len(v[2])}
      ELSE IF k = Str("required") THEN
        IF ~IsDict(instance) THEN {}
        ELSE IF ~IsList(v) THEN {"RAISE"}
        ELSE IF \E m \in 1..Len(v[2]) : ~HasKey(instance, v[2][m])
          THEN {"required"} ELSE {}
      ELSE IF k = Str("additionalProperties") THEN
        IF ~IsDict(instance) THEN {}
        ELSE LET props  == IF HasKey(schema, Str("properties"))
                             THEN Get(schema, Str("properties")) ELSE PyDict(<<>>)
                 extras == {m \in 1..Len(instance[2]) :
                              ~(IsDict(props) /\ HasKey(props, instance[2][m][1]))}
             IN IF IsDict(v)
                  THEN UNION {iter_errors(v, instance[2][m][2]) : m \in extras}
                ELSE IF v = PyBool(FALSE) /\ extras # {}
                  THEN {"additionalProperties"}
                ELSE {}
      ELSE {} : n \in 1..Len(schema[2])}

\* An error type that ignores the failing keyword
error_type_other(validator) == "other_validation_error"

\* Lines 279-292: the error type recorded for a failing keyword
error_type(validator) ==
    CASE validator = "required"             -> "required_property_missing"
      [] validator = "additionalProperties" -> "additional_properties"
      [] validator = "type"                 -> "type_mismatch"
      [] validator = "enum"                 -> "enum_validation"
      [] validator \in {"minLength", "maxLength", "minimum", "maximum"}
                                            -> "constraint_violation"
      [] validator = "pattern"              -> "pattern_mismatch"
      [] OTHER                              -> "other_validation_error"

\* Some error text: the message of a failed validation (lines 265, 296-300
\* and 307), whose wording is not modelled
SomeMessage == Str("message")

\* validate_against_schema without the test of lines 264-265
validate_without_null_test(data, schema) ==
    IF "RAISE" \in iter_errors(schema, data)
      THEN [valid |-> FALSE, message |-> SomeMessage,
            kinds |-> {"validation_exception"}]
    ELSE IF iter_errors(schema, data) # {}
      THEN [valid |-> FALSE, message |-> SomeMessage,
            kinds |-> {error_type(e) : e \in iter_errors(schema, data)}]
    ELSE [valid |-> TRUE, message |-> PyNone, kinds |-> {"none"}]

\* validate_against_schema(data, schema): whether the data is valid, the
\* message (None or some text), and the error types it may report ("none"
\* stands for None): the primary one is the first element of a set of
\* strings, whose order Python does not fix.
validate_against_schema(data, schema) ==
    IF schema = PyNone
      THEN [valid |-> FALSE, message |-> SomeMessage,
            kinds |-> {"schema_undefined"}]
    ELSE IF "RAISE" \in iter_errors(schema, data)
      THEN [valid |-> FALSE, message |-> SomeMessage,
            kinds |-> {"validation_exception"}]
    ELSE IF iter_errors(schema, data) # {}
      THEN [valid |-> FALSE, message |-> SomeMessage,
            kinds |-> {error_type(e) : e \in iter_errors(schema, data)}]
    ELSE [valid |-> TRUE, message |-> PyNone, kinds |-> {"none"}]

---------------------------------------------------------------------------
(* schema_validation_accuracy.py: parse_tool_schema as one function,       *)
(* extract_tool_calls_with_details, and the records                        *)
(* calculate_schema_validation_accuracy builds.                            *)

\* Lines 214-248: the loop over the blocks; Raised when a completion raises
RECURSIVE parse_blocks(_, _, _)
\* Lines 242-248: the entry of a block whose completed output is given
store_block(blocks, i, acc, output_schema) ==
    IF output_schema = Raised THEN Raised
    ELSE parse_blocks(blocks, i + 1,
           DictPut(acc, PyStr(name_match(blocks[i], 0)),
             [input_schema  |->
                field_schema(field_str(blocks[i], "Parameters")),
              output_schema |-> output_schema]))

parse_blocks(blocks, i, acc) ==
    IF i > Len(blocks) THEN PyDict(acc)
    ELSE IF Skipped(blocks[i]) THEN parse_blocks(blocks, i + 1, acc)
    ELSE store_block(blocks, i, acc,
           complete_output_schema(
             field_schema(field_str(blocks[i], "Output"))))

\* Lines 196-250: the Catalog of a tool file, as a dict
parse_tool_schema(tool_text) ==
    parse_blocks(split_blocks(Strip(tool_text), 0, 0, <<>>), 1, <<>>)

\* d.get(k, default)
PyGet(d, k, default) == IF HasKey(d, k) THEN Get(d, k) ELSE default

\* Lines 325-335: the calls of the items of one coa list; an item that is a
\* string or a list without 'action' adds nothing
RECURSIVE coa_calls(_, _)
coa_calls(coa_list, n) ==
    IF n > Len(coa_list) THEN <<>>
    ELSE (IF IsDict(coa_list[n]) /\ HasKey(coa_list[n], Str("action"))
            THEN << [tool_name   |-> PyGet(Get(coa_list[n], Str("action")),
                                           Str("name"), PyStr(<<>>)),
                     args        |-> PyGet(Get(coa_list[n], Str("action")),
                                           Str("args"), PyDict(<<>>)),
                     observation |-> PyGet(coa_list[n], Str("observation"),
                                           PyDict(<<>>))] >>
            ELSE <<>>)
           \o coa_calls(coa_list, n + 1)

\* Lines 324-326: the calls of one coa; the characters of a string and the
\* keys of a mapping are iterated too and add nothing
calls_of_coa(coa) == IF IsList(coa) THEN coa_calls(coa[2], 1) ELSE <<>>

\* Lines 322-324: the calls of the values of one step dict; a value that is
\* a string or a list without 'coa' adds nothing
RECURSIVE step_calls(_, _)
step_calls(items, n) ==
    IF n > Len(items) THEN <<>>
    ELSE (IF IsDict(items[n][2]) /\ HasKey(items[n][2], Str("coa"))
            THEN calls_of_coa(Get(items[n][2], Str("coa")))
            ELSE <<>>)
           \o step_calls(items, n + 1)

\* Lines 310-337, for a response the function returns on: a list of dicts,
\* or an empty string or mapping (the loop of line 321 runs zero times)
RECURSIVE extract_tool_calls_with_details(_, _)
extract_tool_calls_with_details(response, n) ==
    IF n > Len(response[2]) THEN <<>>
    ELSE step_calls(response[2][n][2], 1)
           \o extract_tool_calls_with_details(response, n + 1)

\* Line 420: tool_name in tools_schema
InCatalog(catalog, tool_name) ==
    \E n \in 1..Len(catalog) : catalog[n][1] = tool_name

SchemaOf(catalog, tool_name) ==
    catalog[CHOOSE n \in 1..Len(catalog) : catalog[n][1] = tool_name][2]

\* Details that call the args of a call to an unknown tool valid
not_found_info_action_valid(tool_name) ==
    [tool_name |-> tool_name,
     reason |-> "tool_not_in_schema",
     action_valid |-> TRUE,
     observation_valid |-> FALSE,
     action_error_type |-> "tool_not_found",
     observation_error_type |-> "tool_not_found"]

\* Lines 423-430: the details of a call to a tool the Catalog lacks
not_found_info(tool_name) ==
    [tool_name |-> tool_name,
     reason |-> "tool_not_in_schema",
     action_valid |-> FALSE,
     observation_valid |-> FALSE,
     action_error_type |-> "tool_not_found",
     observation_error_type |-> "tool_not_found"]

\* Details that take the verdict on the args for the observation as well
call_info_args_only(tool_name, a, a_type, o, o_type) ==
    IF a.valid THEN
      [tool_name |-> tool_name, action_valid |-> TRUE,
       observation_valid |-> TRUE]
    ELSE
      [tool_name |-> tool_name, action_valid |-> FALSE,
       observation_valid |-> TRUE,
       action_error |-> a.message, action_error_type |-> a_type]

\* Lines 450-460: the details of a validated call; a is what the validation
\* of the args returned (the kind being a_type), o that of the observation
call_info(tool_name, a, a_type, o, o_type) ==
    IF a.valid /\ o.valid THEN
      [tool_name |-> tool_name, action_valid |-> TRUE,
       observation_valid |-> TRUE]
    ELSE IF a.valid THEN
      [tool_name |-> tool_name, action_valid |-> TRUE,
       observation_valid |-> FALSE,
       observation_error |-> o.message, observation_error_type |-> o_type]
    ELSE IF o.valid THEN
      [tool_name |-> tool_name, action_valid |-> FALSE,
       observation_valid |-> TRUE,
       action_error |-> a.message, action_error_type |-> a_type]
    ELSE
      [tool_name |-> tool_name, action_valid |-> FALSE,
       observation_valid |-> FALSE,
       action_error |-> a.message, action_error_type |-> a_type,
       observation_error |-> o.message, observation_error_type |-> o_type]

\* Lines 444-447: the error types of a validated call are counted
count_error_types(stats, info) ==
    LET after_action ==
          IF ~info.action_valid
            THEN [stats EXCEPT ![info.action_error_type] = @ + 1]
            ELSE stats
    IN IF ~info.observation_valid
         THEN [after_action EXCEPT ![info.observation_error_type] = @ + 1]
         ELSE after_action

RECURSIVE GCD(_, _)
GCD(a, b) == IF b = 0 THEN a ELSE GCD(b, a % b)

\* Lines 477 and 496: valid / total as a fraction in lowest terms, 0.0 when
\* there is no call
Acc_schema(valid, total) ==
    IF total > 0 THEN <<valid \div GCD(valid, total), total \div GCD(valid, total)>>
    ELSE <<0, 1>>

\* Lines 480-489: the result of one file
file_result(file, total, valid, action_valid, observation_valid, details) ==
    [file |-> file,
     Acc_schema |-> Acc_schema(valid, total),
     total_calls |-> total,
     valid_calls |-> valid,
     invalid_calls |-> total - valid,
     action_valid_calls |-> action_valid,
     observation_valid_calls |-> observation_valid,
     calls_details |-> details]

---------------------------------------------------------------------------
(* json.dumps(v, ensure_ascii=False, separators=(',', ': ')), as           *)
(* normalize_tool_txt writes a schema (normalize_tool_schema.py, lines     *)
(* 693-702), and Python's == on the values of the model.                   *)

\* json.dumps can write the value: no set, and no key but str, int, bool
\* and None
RECURSIVE Serializable(_)
Serializable(v) ==
    IF v[1] \in {"none", "bool", "int", "str"} THEN TRUE
    ELSE IF v[1] \in {"list", "tuple"}
      THEN \A n \in 1..Len(v[2]) : Serializable(v[2][n])
    ELSE IF IsDict(v)
      THEN \A n \in 1..Len(v[2]) :
             /\ Hashable(v[2][n][1])
             /\ Serializable(v[2][n][2])
    ELSE FALSE

\* The characters of a string between the quotes json.dumps writes
RECURSIVE json_escape(_)
json_escape(t) ==
    IF t = <<>> THEN <<>>
    ELSE (IF Head(t) = DQ THEN <<BSL, DQ>>
          ELSE IF Head(t) = BSL THEN <<BSL, BSL>>
          ELSE IF Head(t) = NL THEN <<BSL, "n">>
          ELSE <<Head(t)>>)
           \o json_escape(Tail(t))

\* The text of a scalar outside quotes
scalar_text(v) ==
    IF v = PyNone THEN <<"null">>
    ELSE IF v = PyBool(TRUE) THEN <<"true">>
    ELSE IF v = PyBool(FALSE) THEN <<"false">>
    ELSE v[2]

RECURSIVE dumps_value(_)
RECURSIVE dumps_items(_, _)
RECURSIVE dumps_pairs(_, _)

\* The items of a list or tuple, with "," between them
dumps_items(es, n) ==
    IF n > Len(es) THEN <<>>
    ELSE (IF n > 1 THEN <<COMMA>> ELSE <<>>)
           \o dumps_value(es[n]) \o dumps_items(es, n + 1)

\* The pairs of a dict, with "," between them and ": " after the key; a
\* key that is no string is written as the string of its text
dumps_pairs(ps, n) ==
    IF n > Len(ps) THEN <<>>
    ELSE (IF n > 1 THEN <<COMMA>> ELSE <<>>)
           \o (IF IsStr(ps[n][1]) THEN dumps_value(ps[n][1])
               ELSE <<DQ>> \o scalar_text(ps[n][1]) \o <<DQ>>)
           \o <<COLON, SPACE>>
           \o dumps_value(ps[n][2]) \o dumps_pairs(ps, n + 1)

dumps_value(v) ==
    IF IsStr(v) THEN <<DQ>> \o json_escape(v[2]) \o <<DQ>>
    ELSE IF v[1] \in {"list", "tuple"}
      THEN <<LBRACK>> \o dumps_items(v[2], 1) \o <<RBRACK>>
    ELSE IF IsDict(v)
      THEN <<LBRACE>> \o dumps_pairs(v[2], 1) \o <<RBRACE>>
    ELSE scalar_text(v)

\* The text json.dumps returns, Raised when it raises TypeError
json_dumps(v) == IF Serializable(v) THEN PyStr(dumps_value(v)) ELSE Raised

\* a == b of Python: dicts are equal whatever the order of their keys, True
\* is equal to 1 and False to 0
RECURSIVE PyEqual(_, _)
PyEqual(a, b) ==
    IF IsDict(a) /\ IsDict(b) THEN
      /\ Len(a[2]) = Len(b[2])
      /\ \A n \in 1..Len(a[2]) :
           \E m \in 1..Len(b[2]) :
             /\ PyKey(a[2][n][1]) = PyKey(b[2][m][1])
             /\ PyEqual(a[2][n][2], b[2][m][2])
    ELSE IF a[1] = b[1] /\ a[1] \in {"list", "tuple"} THEN
      /\ Len(a[2]) = Len(b[2])
      /\ \A n \in 1..Len(a[2]) : PyEqual(a[2][n], b[2][n])
    ELSE IF a[1] \in {"dict", "list", "tuple"} \/ b[1] \in {"dict", "list", "tuple"}
      THEN FALSE
    ELSE PyKey(a) = PyKey(b)

---------------------------------------------------------------------------
(* duplicate_call_rate.py: the signature of a call and the similarity of   *)
(* two args values.  A float is the fraction <<numerator, denominator>> in *)
(* lowest terms that it stands for.                                        *)

\* The words the keys of the args are taken from, as sorted() orders them
SortedKeyWords == <<"a", "k", "x">>

KeyRank(k) == CHOOSE n \in 1..Len(SortedKeyWords) : SortedKeyWords[n] = k[2][1]

\* sorted(d.items()): the pairs in the order of their keys
RECURSIVE sorted_items(_)
sorted_items(ps) ==
    IF ps = <<>> THEN <<>>
    ELSE LET least == CHOOSE n \in 1..Len(ps) :
                        \A m \in 1..Len(ps) : KeyRank(ps[n][1]) <= KeyRank(ps[m][1])
         IN <<ps[least]>>
              \o sorted_items(SubSeq(ps, 1, least - 1) \o SubSeq(ps, least + 1, Len(ps)))

RECURSIVE py_repr(_)
RECURSIVE repr_items(_, _)
RECURSIVE repr_pairs(_, _)

\* The elements of a list, ", " between them
repr_items(es, n) ==
    IF n > Len(es) THEN <<>>
    ELSE (IF n > 1 THEN <<COMMA, SPACE>> ELSE <<>>)
           \o py_repr(es[n]) \o repr_items(es, n + 1)

\* The pairs of a dict, ", " between them and ": " after the key
repr_pairs(ps, n) ==
    IF n > Len(ps) THEN <<>>
    ELSE (IF n > 1 THEN <<COMMA, SPACE>> ELSE <<>>)
           \o py_repr(ps[n][1]) \o <<COLON, SPACE>> \o py_repr(ps[n][2])
           \o repr_pairs(ps, n + 1)

\* repr(v) of Python, for strings without quotes and backslashes
py_repr(v) ==
    IF IsStr(v) THEN <<SQ>> \o v[2] \o <<SQ>>
    ELSE IF v = PyNone THEN <<"None">>
    ELSE IF v = PyBool(TRUE) THEN <<"True">>
    ELSE IF v = PyBool(FALSE) THEN <<"False">>
    ELSE IF IsList(v) THEN <<LBRACK>> \o repr_items(v[2], 1) \o <<RBRACK>>
    ELSE IF IsDict(v) THEN <<LBRACE>> \o repr_pairs(v[2], 1) \o <<RBRACE>>
    ELSE v[2]

\* str(v) of Python
py_str(v) == IF IsStr(v) THEN v[2] ELSE py_repr(v)

\* normalize_value (lines 31-39)
RECURSIVE normalize_value(_)
normalize_value(v) ==
    IF IsDict(v)
      THEN PyDict([n \in 1..Len(v[2]) |->
                     <<sorted_items(v[2])[n][1],
                       normalize_value(sorted_items(v[2])[n][2])>>])
    ELSE IF IsList(v)
      THEN PyList([n \in 1..Len(v[2]) |-> normalize_value(v[2][n])])
    ELSE IF v = PyNone THEN PyNone
    ELSE PyStr(py_str(v))

RECURSIVE dumps_sorted(_)
RECURSIVE dumps_sorted_items(_, _)
RECURSIVE dumps_sorted_pairs(_, _)

dumps_sorted_items(es, n) ==
    IF n > Len(es) THEN <<>>
    ELSE (IF n > 1 THEN <<COMMA, SPACE>> ELSE <<>>)
           \o dumps_sorted(es[n]) \o dumps_sorted_items(es, n + 1)

dumps_sorted_pairs(ps, n) ==
    IF n > Len(ps) THEN <<>>
    ELSE (IF n > 1 THEN <<COMMA, SPACE>> ELSE <<>>)
           \o dumps_sorted(ps[n][1]) \o <<COLON, SPACE>>
           \o dumps_sorted(ps[n][2]) \o dumps_sorted_pairs(ps, n + 1)

\* json.dumps(v, sort_keys=True, ensure_ascii=False) (line 42), for the
\* values normalize_value yields: dicts with string keys, lists, strings
\* and None
dumps_sorted(v) ==
    IF IsStr(v) THEN <<DQ>> \o json_escape(v[2]) \o <<DQ>>
    ELSE IF IsList(v)
      THEN <<LBRACK>> \o dumps_sorted_items(v[2], 1) \o <<RBRACK>>
    ELSE IF IsDict(v)
      THEN <<LBRACE>> \o dumps_sorted_pairs(sorted_items(v[2]), 1) \o <<RBRACE>>
    ELSE scalar_text(v)

\* Lines 19-42
normalize_args(args) ==
    IF ~Truthy(args) \/ ~IsDict(args) THEN <<LBRACE, RBRACE>>
    ELSE dumps_sorted(normalize_value(args))

\* A signature made of the tool name alone
signature_without_args(tool_name, args) == PyStr(py_str(tool_name))

\* Lines 45-56: f"{tool_name}::{normalize_args(args)}"
get_call_signature(tool_name, args) ==
    PyStr(py_str(tool_name) \o <<COLON, COLON>> \o normalize_args(args))

Fraction(n, d) == <<n \div GCD(n, d), d \div GCD(n, d)>>

\* The keys of both args whose values have the same str()
same_keys(args1, args2) ==
    {n \in 1..Len(args1[2]) :
       /\ HasKey(args2, args1[2][n][1])
       /\ py_str(args1[2][n][2]) = py_str(Get(args2, args1[2][n][1]))}

\* set(args1.keys()) | set(args2.keys())
all_keys(args1, args2) ==
    {args1[2][n][1] : n \in 1..Len(args1[2])}
      \cup {args2[2][n][1] : n \in 1..Len(args2[2])}

\* Lines 59-90
calculate_param_similarity(args1, args2) ==
    IF ~Truthy(args1) /\ ~Truthy(args2) THEN <<1, 1>>
    ELSE IF ~Truthy(args1) \/ ~Truthy(args2) THEN <<0, 1>>
    ELSE Fraction(Cardinality(same_keys(args1, args2)),
                  Cardinality(all_keys(args1, args2)))

\* Lines 220-223: the similarities of the pairs i < j of one tool's calls,
\* from the pair (i, j) on
RECURSIVE pair_similarities(_, _, _)
pair_similarities(args_list, i, j) ==
    IF i > Len(args_list) THEN <<>>
    ELSE IF j > Len(args_list) THEN pair_similarities(args_list, i + 1, i + 2)
    ELSE <<calculate_param_similarity(args_list[i], args_list[j])>>
           \o pair_similarities(args_list, i, j + 1)

\* Lines 216-223: param_similarities, from the n-th tool of the map on
RECURSIVE param_similarities(_, _)
param_similarities(map, n) ==
    IF n > Len(map) THEN <<>>
    ELSE pair_similarities(map[n][2], 1, 2) \o param_similarities(map, n + 1)

\* sum(fractions)
RECURSIVE sum_fractions(_)
sum_fractions(fs) ==
    IF fs = <<>> THEN <<0, 1>>
    ELSE LET rest == sum_fractions(Tail(fs))
         IN Fraction(Head(fs)[1] * rest[2] + rest[1] * Head(fs)[2],
                     Head(fs)[2] * rest[2])

\* Line 225
avg_param_similarity(sims) ==
    IF sims = <<>> THEN <<0, 1>>
    ELSE Fraction(sum_fractions(sims)[1], sum_fractions(sims)[2] * Len(sims))

\* tool_calls_map[tool_name].append(args) (line 213): a name met for the
\* first time gets a list of its own at the end of the map
map_append(map, tool_name, args) ==
    IF \E n \in 1..Len(map) : map[n][1] = tool_name
      THEN [n \in 1..Len(map) |->
              IF map[n][1] = tool_name
                THEN <<tool_name, Append(map[n][2], args)>> ELSE map[n]]
      ELSE Append(map, <<tool_name, <<args>>>>)

\* Lines 150-161 and 227-237: the value returned
metrics(total, exact, tool, consecutive, similarity, details) ==
    [total_calls |-> total,
     exact_dup_count |-> exact,
     tool_dup_count |-> tool,
     consecutive_dup_count |-> consecutive,
     Rate_exact_dup |-> IF total = 0 THEN <<0, 1>> ELSE Fraction(exact, total),
     Rate_tool_dup |-> IF total = 0 THEN <<0, 1>> ELSE Fraction(tool, total),
     Rate_consecutive_dup |->
       IF total = 0 THEN <<0, 1>> ELSE Fraction(consecutive, total),
     Avg_param_similarity |-> similarity,
     duplicate_details |-> details]

---------------------------------------------------------------------------
(* Scanner specification: every text over ScanChars up to MaxScanLen       *)
(* tokens, and the spec's example, scanned from every offset.              *)

MaxScanLen == 5

ScanChars == {LBRACE, RBRACE, DQ, SQ, BSL}

\* {"a": "}", "b": 1}
ScanExample ==
    <<LBRACE, DQ, "a", DQ, ":", " ", DQ, RBRACE, DQ, ",", " ",
      DQ, "b", DQ, ":", " ", "1", RBRACE>>

ScanTexts ==
    UNION {[1..n -> ScanChars] : n \in 0..MaxScanLen} \cup {ScanExample}

NotScanned == [sva |-> PyNone, nts |-> PyNone]

NotValidated == [tool |-> <<>>, field |-> "none", data |-> PyNone,
                 valid |-> FALSE, message |-> PyNone, kind |-> "none"]

ScanIdle    == start_pos = 0 /\ scanned = NotScanned
ParseIdle   == impl = "none" /\ tried = <<>> /\ result = PyNone
CatalogIdle ==
    /\ content = <<>>
    /\ tool_blocks = <<>>
    /\ block_i = 0
    /\ tools_schema = <<>>
    /\ fields = <<>>
    /\ validation = NotValidated

\* Lines 357-375: the counters before the first folder
NoErrors ==
    [k \in {"required_property_missing", "additional_properties",
            "type_mismatch", "enum_validation", "constraint_violation",
            "pattern_mismatch", "schema_undefined", "tool_not_found",
            "other_validation_error", "validation_exception"} |-> 0]

CountersZero ==
    /\ total_calls = 0
    /\ valid_calls = 0
    /\ action_valid_calls = 0
    /\ observation_valid_calls = 0
    /\ error_type_stats = NoErrors
    /\ per_file_results = <<>>

AccuracyIdle ==
    /\ data_folders = <<>>
    /\ folder_i = 0
    /\ json_files = <<>>
    /\ file_i = 0
    /\ tool_calls = <<>>
    /\ call_i = 0
    /\ CountersZero
    /\ file_total_calls = 0
    /\ file_valid_calls = 0
    /\ file_action_valid_calls = 0
    /\ file_observation_valid_calls = 0
    /\ file_invalid_details = <<>>
    /\ printed = <<>>
    /\ accuracy_result = PyNone

NormalizeIdle ==
    /\ fixed_texts = <<>>
    /\ repair = "none"
    /\ repaired = PyNone
    /\ round_trip = <<>>

DuplicateIdle ==
    /\ calls = <<>>
    /\ seen_signatures = {}
    /\ seen_tools = {}
    /\ prev_signature = PyNone
    /\ exact_dup_count = 0
    /\ tool_dup_count = 0
    /\ consecutive_dup_count = 0
    /\ duplicate_details = <<>>
    /\ tool_calls_map = <<>>
    /\ duplicate_metrics = PyNone

RenameIdle ==
    /\ folder = PyNone
    /\ folder_before = PyNone
    /\ dry_run = TRUE
    /\ posix = TRUE
    /\ old_files = <<>>
    /\ temp_files = <<>>
    /\ stage1_count = 0
    /\ stage2_count = 0

UtilityIdle == idx = 0 /\ DuplicateIdle /\ RenameIdle /\ parse_errors = <<>>

\* The variables of every specification but the running one are idle
IdleExcept(running) ==
    /\ IF running = "scan" THEN TRUE ELSE ScanIdle
    /\ IF running = "parse" THEN TRUE ELSE ParseIdle
    /\ IF running = "catalog" THEN TRUE ELSE CatalogIdle
    /\ IF running = "accuracy" THEN TRUE ELSE AccuracyIdle
    /\ IF running = "normalize" THEN TRUE ELSE NormalizeIdle
    /\ IF running = "duplicate" THEN TRUE ELSE DuplicateIdle
    /\ IF running = "rename" THEN TRUE ELSE RenameIdle
    /\ IF running \in {"duplicate", "rename"} THEN TRUE ELSE idx = 0
    /\ parse_errors = <<>>

ScanInit ==
    /\ pc = "scan"
    /\ text \in ScanTexts
    /\ start_pos \in 0..Len(text)
    /\ scanned = NotScanned
    /\ IdleExcept("scan")

Scan ==
    /\ pc = "scan"
    /\ scanned' = [sva |-> sva_extract_balanced_braces(text, start_pos),
                   nts |-> nts_extract_balanced_braces(text, start_pos, TRUE)]
    /\ pc' = "scanned"
    /\ UNCHANGED <<text, start_pos, notScan>>

ScanNext == Scan

SpecScan == ScanInit /\ [][ScanNext]_vars

---------------------------------------------------------------------------
(* Parser specification: parse_schema_string of both files, one step per   *)
(* try block, on every braced text whose body has up to MaxBodyLen tokens  *)
(* of ParseToks and on the texts of ParseExamples.                         *)

MaxBodyLen == 4

ParseToks == {SQ, DQ, COLON, COMMA, "1"}

Braced(body) == <<LBRACE>> \o body \o <<RBRACE>>

\* {'a': 'None'}
ExNoneInString ==
    <<LBRACE, SQ, "a", SQ, COLON, SPACE, SQ, "None", SQ, RBRACE>>

\* {"a": ["b", {"c": null}]}
ExStringBeforeObject ==
    <<LBRACE, DQ, "a", DQ, COLON, SPACE, LBRACK, DQ, "b", DQ, COMMA, SPACE,
      LBRACE, DQ, "c", DQ, COLON, SPACE, "null", RBRACE, RBRACK, RBRACE>>

\* {'properties': {'a': {'x': 1}, 'type1': 'object'}
ExUnclosedProperties ==
    <<LBRACE, SQ, "properties", SQ, COLON, SPACE, LBRACE, SQ, "a", SQ, COLON,
      SPACE, LBRACE, SQ, "x", SQ, COLON, SPACE, "1", RBRACE, COMMA, SPACE,
      SQ, "type", "1", SQ, COLON, SPACE, SQ, "object", SQ, RBRACE>>

\* {'type': 'object', 'properties': {'code': {'type': 'int'}}}
ExSchema ==
    <<LBRACE, SQ, "type", SQ, COLON, SPACE, SQ, "object", SQ, COMMA, SPACE,
      SQ, "properties", SQ, COLON, SPACE, LBRACE, SQ, "code", SQ, COLON,
      SPACE, LBRACE, SQ, "type", SQ, COLON, SPACE, SQ, "int", SQ, RBRACE,
      RBRACE, RBRACE>>

\* {'a', 'b'}
ExSetLiteral == <<LBRACE, SQ, "a", SQ, COMMA, SPACE, SQ, "b", SQ, RBRACE>>

ParseExamples ==
    {ExNoneInString, ExStringBeforeObject, ExUnclosedProperties, ExSchema,
     ExSetLiteral, <<>>, <<SPACE>>, <<SPACE, LBRACE, RBRACE, NL>>}

ParseTexts ==
    {Braced(body) : body \in UNION {[1..n -> ParseToks] : n \in 0..MaxBodyLen}}
      \cup ParseExamples

Last(s) == s[Len(s)]

ParseInit ==
    /\ pc = "call"
    /\ text \in ParseTexts
    /\ impl \in {"sva", "nts"}
    /\ tried = <<>>
    /\ result = PyNone
    /\ IdleExcept("parse")

\* schema_validation_accuracy.parse_schema_string: the next try block. Its
\* value is returned whatever it is; when it raises the next one is tried,
\* and None is returned after the last.
SvaMethod ==
    /\ impl = "sva"
    /\ pc \in {"call", "trying"}
    /\ tried' = Append(tried, sva_method(Len(tried) + 1, text))
    /\ IF Last(tried') # Raised THEN pc' = "returned" /\ result' = Last(tried')
       ELSE IF Len(tried') = 3 THEN pc' = "returned" /\ result' = PyNone
       ELSE pc' = "trying" /\ result' = result
    /\ UNCHANGED <<text, impl, notParse>>

\* normalize_tool_schema.parse_schema_string, lines 451-455: an empty or
\* blank text is None at once; otherwise the text is stripped.
NtsStrip ==
    /\ impl = "nts"
    /\ pc = "call"
    /\ IF Strip(text) = <<>>
         THEN pc' = "returned" /\ result' = PyNone /\ text' = text
         ELSE pc' = "trying" /\ result' = result /\ text' = Strip(text)
    /\ UNCHANGED <<impl, tried, notParse>>

\* normalize_tool_schema.parse_schema_string: the next strategy. Its value
\* is returned when it is a non-empty dict; otherwise the next one is
\* tried, and None is returned after the last.
NtsStrategy ==
    /\ impl = "nts"
    /\ pc = "trying"
    /\ tried' = Append(tried, nts_strategy(Len(tried) + 1, text))
    /\ IF NonEmptyDict(Last(tried'))
         THEN pc' = "returned" /\ result' = Last(tried')
       ELSE IF Len(tried') = 4 THEN pc' = "returned" /\ result' = PyNone
       ELSE pc' = "trying" /\ result' = result
    /\ UNCHANGED <<text, impl, notParse>>

ParseNext == SvaMethod \/ NtsStrip \/ NtsStrategy

SpecParse == ParseInit /\ [][ParseNext]_vars

---------------------------------------------------------------------------
(* Catalog specification: parse_tool_schema on the tool files of up to     *)
(* MaxBlocks blocks taken from BlockKinds, one step per block of the loop, *)
(* then one call of validate_against_schema on a stored schema.            *)

MaxBlocks == 2

\* {'type': 'string'}
SpanString ==
    <<LBRACE, SQ, "type", SQ, COLON, SPACE, SQ, "string", SQ, RBRACE>>

\* {'code': {'type': 'int'}}
SpanCodeInt ==
    <<LBRACE, SQ, "code", SQ, COLON, SPACE, LBRACE, SQ, "type", SQ, COLON,
      SPACE, SQ, "int", SQ, RBRACE, RBRACE>>

\* {'code': {'type': 'integer'}}
SpanCodeInteger ==
    <<LBRACE, SQ, "code", SQ, COLON, SPACE, LBRACE, SQ, "type", SQ, COLON,
      SPACE, SQ, "integer", SQ, RBRACE, RBRACE>>

\* {'a': }
SpanBroken == <<LBRACE, SQ, "a", SQ, COLON, SPACE, RBRACE>>

\* {'type', 'x'}
SpanSetWithType ==
    <<LBRACE, SQ, "type", SQ, COMMA, SPACE, SQ, "x", SQ, RBRACE>>

SpanEmpty == <<LBRACE, RBRACE>>

\* {'type': {'type': 'string'}}: a property map with a field named "type"
SpanFieldNamedType ==
    <<LBRACE, SQ, "type", SQ, COLON, SPACE, LBRACE, SQ, "type", SQ, COLON,
      SPACE, SQ, "string", SQ, RBRACE, RBRACE>>

\* A field line that is left out of the block
Absent == <<>>

BlockKind(name, params, output) ==
    [name |-> name, params |-> params, output |-> output]

BlockKinds ==
    {BlockKind(<<"a">>, SpanString, SpanCodeInt),
     BlockKind(<<"x">>, SpanCodeInteger, SpanString),
     BlockKind(<<"a">>, Absent, Absent),
     BlockKind(<<"x">>, SpanBroken, SpanBroken),
     BlockKind(<<"a">>, <<"none">>, SpanCodeInteger),
     BlockKind(<<DQ, "a", DQ>>, SpanString, SpanString),
     BlockKind(<<"x">>, ExSetLiteral, Absent),
     BlockKind(<<"a">>, Absent, ExSetLiteral),
     BlockKind(<<"x">>, Absent, SpanSetWithType),
     BlockKind(<<"a">>, SpanEmpty, SpanEmpty),
     BlockKind(<<"x">>, Absent, SpanFieldNamedType)}

\* "N. Name: <name>", then the Parameters and Output lines that are present
BlockText(n, kind) ==
    <<IF n % 2 = 1 THEN "1" ELSE "2", ".", SPACE, "Name", COLON, SPACE>>
      \o kind.name
      \o (IF kind.params = Absent THEN <<>>
          ELSE <<NL, "Parameters", COLON, SPACE>> \o kind.params)
      \o (IF kind.output = Absent THEN <<>>
          ELSE <<NL, "Output", COLON, SPACE>> \o kind.output)

RECURSIVE FileText(_, _)
FileText(kinds, n) ==
    IF n > Len(kinds) THEN <<>>
    ELSE (IF n = 1 THEN <<>> ELSE <<NL>>) \o BlockText(n, kinds[n])
           \o FileText(kinds, n + 1)

\* The files of 1..MaxBlocks blocks (each ends with a newline), and the
\* empty file
CatalogTexts ==
    {FileText(kinds, 1) \o <<NL>> :
       kinds \in UNION {[1..n -> BlockKinds] : n \in 1..MaxBlocks}}
      \cup {<<>>}

\* {"code": 1}, {"code": 1, "x": 1}, {"x": 1} and "ok"
ValidationData ==
    {PyDict(<< <<Str("code"), PyInt(<<"1">>)>> >>),
     PyDict(<< <<Str("code"), PyInt(<<"1">>)>>, <<Str("x"), PyInt(<<"1">>)>> >>),
     PyDict(<< <<Str("x"), PyInt(<<"1">>)>> >>),
     Str("ok")}

CatalogInit ==
    /\ pc = "read"
    /\ content \in CatalogTexts
    /\ tool_blocks = <<>>
    /\ block_i = 0
    /\ tools_schema = <<>>
    /\ fields = <<>>
    /\ validation = NotValidated
    /\ text = <<>>
    /\ IdleExcept("catalog")

\* Lines 206-212: the file is read and split into blocks.
SplitBlocks ==
    /\ pc = "read"
    /\ tool_blocks' = split_blocks(Strip(content), 0, 0, <<>>)
    /\ block_i' = 1
    /\ pc' = "loop"
    /\ UNCHANGED <<text, notCatalog, content, tools_schema, fields,
                   validation>>

\* Lines 215-222: a blank block, or one without a name, is passed over.
SkipBlock ==
    /\ pc = "loop"
    /\ block_i <= Len(tool_blocks)
    /\ Skipped(tool_blocks[block_i])
    /\ block_i' = block_i + 1
    /\ UNCHANGED <<pc, text, notCatalog, content, tool_blocks,
                   tools_schema, fields, validation>>

FieldLabels == {"Parameters", "Output"}

\* Lines 225-239: the spans after the two labels, and their parsed values
field_spans(block) == [label \in FieldLabels |-> field_str(block, label)]

field_schemas(spans) ==
    [label \in DOMAIN spans |-> field_schema(spans[label])]

block_fields(block, spans, schemas) ==
    [tool_name     |-> name_match(block, 0),
     params_str    |-> spans["Parameters"],
     output_str    |-> spans["Output"],
     input_schema  |-> schemas["Parameters"],
     output_schema |-> schemas["Output"]]

parsed_block(block, spans) ==
    block_fields(block, spans, field_schemas(spans))

\* Lines 243-248: the entry is stored under the name with the completed
\* output schema, unless the completion raised
StoreEntry(entry, completed) ==
    IF completed = Raised
      THEN /\ pc' = "raised"
           /\ UNCHANGED <<block_i, tools_schema>>
      ELSE /\ tools_schema' =
                DictPut(tools_schema, PyStr(entry.tool_name),
                  [input_schema  |-> entry.input_schema,
                   output_schema |-> completed])
           /\ block_i' = block_i + 1
           /\ pc' = pc

\* Lines 223-248: the name, the two spans and their parsed values; the
\* output value is completed and the entry stored under the name, unless
\* the completion raises, which ends parse_tool_schema.
ProcessBlock ==
    /\ pc = "loop"
    /\ block_i <= Len(tool_blocks)
    /\ ~Skipped(tool_blocks[block_i])
    /\ fields' = Append(fields,
         parsed_block(tool_blocks[block_i], field_spans(tool_blocks[block_i])))
    /\ StoreEntry(Last(fields'),
                  complete_output_schema(Last(fields').output_schema))
    /\ UNCHANGED <<text, notCatalog, content, tool_blocks, validation>>

\* Line 250: the loop is over and the Catalog is returned.
ReturnCatalog ==
    /\ pc = "loop"
    /\ block_i > Len(tool_blocks)
    /\ pc' = "built"
    /\ UNCHANGED <<text, notCatalog, catalogVars>>

\* validate_against_schema(data, schema) on a schema of the Catalog
Validate ==
    /\ pc = "built"
    /\ \E n \in 1..Len(tools_schema) :
       \E field \in {"input_schema", "output_schema"} :
       \E data \in ValidationData :
       \E kind \in validate_against_schema(data, tools_schema[n][2][field]).kinds :
          validation' =
            [tool  |-> tools_schema[n][1][2],
             field |-> field,
             data  |-> data,
             valid |-> validate_against_schema(data, tools_schema[n][2][field]).valid,
             message |->
               validate_against_schema(data, tools_schema[n][2][field]).message,
             kind  |-> kind]
    /\ pc' = "validated"
    /\ UNCHANGED <<text, notCatalog, content, tool_blocks, block_i,
                   tools_schema, fields>>

CatalogNext ==
    SplitBlocks \/ SkipBlock \/ ProcessBlock \/ ReturnCatalog \/ Validate

SpecCatalog == CatalogInit /\ [][CatalogNext]_vars

---------------------------------------------------------------------------
(* Normalisation specification: fix_json_string of either file applied to  *)
(* every text over FixToks up to MaxFixLen tokens, and applied again to    *)
(* what it returned.                                                       *)

MaxFixLen == 4

FixToks == {LBRACK, RBRACK, LBRACE, RBRACE, COMMA, SQ, "1"}

FixTexts == UNION {[1..n -> FixToks] : n \in 0..MaxFixLen}

\* fix_json_string of schema_validation_accuracy.py (lines 10-74) or of
\* normalize_tool_schema.py (lines 249-334)
fix_json_string(which, s) ==
    IF which = "sva" THEN sva_fix_json_string(s) ELSE nts_fix_json_string(s)

FixInit ==
    /\ pc = "fix"
    /\ text \in FixTexts
    /\ impl \in {"sva", "nts"}
    /\ tried = <<>>
    /\ result = PyNone
    /\ ScanIdle
    /\ CatalogIdle
    /\ AccuracyIdle
    /\ NormalizeIdle
    /\ UtilityIdle

\* fix_json_string is called on the text, then on what it returned
Fix ==
    /\ pc = "fix"
    /\ Len(fixed_texts) < 2
    /\ fixed_texts' = Append(fixed_texts,
         fix_json_string(impl,
           IF fixed_texts = <<>> THEN text ELSE Last(fixed_texts)))
    /\ UNCHANGED <<pc, text, impl, tried, result, scanVars, catalogVars,
                   accuracyVars, repair, repaired, round_trip,
                   utilityVars>>

SpecFix == FixInit /\ [][Fix]_vars

---------------------------------------------------------------------------
(* Enum specification: normalize_tool_schema.fix_json_string applied to an *)
(* object holding an enum array of up to MaxEnumItems elements, the key    *)
(* written bare or between quotes, each element bare or between quotes.    *)

MaxEnumItems == 3

\* enum, "enum", 'enum'
EnumKeyForms == {<<"enum">>, <<DQ, "enum", DQ>>, <<SQ, "enum", SQ>>}

\* a, "a", 'a', 1
EnumElements == {<<"a">>, <<DQ, "a", DQ>>, <<SQ, "a", SQ>>, <<"1">>}

EnumArrays ==
    [key : EnumKeyForms,
     items : UNION {[1..n -> EnumElements] : n \in 1..MaxEnumItems}]

RECURSIVE JoinItems(_)
JoinItems(items) ==
    IF Len(items) = 1 THEN Head(items)
    ELSE Head(items) \o <<COMMA>> \o JoinItems(Tail(items))

\* {key:[item,item]}
EnumText(r) ==
    <<LBRACE>> \o r.key \o <<COLON, LBRACK>> \o JoinItems(r.items)
      \o <<RBRACK, RBRACE>>

\* The docstring's example, enum:[complete,partial], with the words a and 1
DocstringEnum == [key |-> <<"enum">>, items |-> << <<"a">>, <<"1">> >>]

EnumInit ==
    /\ pc = "fix"
    /\ text \in {EnumText(r) : r \in EnumArrays}
    /\ impl = "nts"
    /\ fixed_texts = <<>>
    /\ tried = <<>>
    /\ result = PyNone
    /\ ScanIdle
    /\ CatalogIdle
    /\ AccuracyIdle
    /\ repair = "none"
    /\ repaired = PyNone
    /\ round_trip = <<>>
    /\ UtilityIdle

SpecEnum == EnumInit /\ [][Fix]_vars

---------------------------------------------------------------------------
(* Quote specification: normalize_quotes applied to every text of up to    *)
(* MaxQuoteLen tokens of QuoteToks.                                        *)

MaxQuoteLen == 6

QuoteToks == {DQ, SQ, BSL, "a"}

QuoteTexts == UNION {[1..n -> QuoteToks] : n \in 0..MaxQuoteLen}

QuotesInit ==
    /\ pc = "quotes"
    /\ text \in QuoteTexts
    /\ repair = "none"
    /\ repaired = PyNone
    /\ fixed_texts = <<>>
    /\ round_trip = <<>>
    /\ IdleExcept("normalize")

\* normalize_quotes is called on the text
NormalizeQuotes ==
    /\ pc = "quotes"
    /\ repaired' = PyStr(normalize_quotes(text))
    /\ pc' = "normalized"
    /\ UNCHANGED <<text, notNormalize, fixed_texts, repair, round_trip>>

SpecQuotes == QuotesInit /\ [][NormalizeQuotes]_vars

---------------------------------------------------------------------------
(* Repair specification: each of the three structural repairs of           *)
(* normalize_tool_schema.py applied to the JSON text of a well-formed      *)
(* JSON Schema: an object schema with up to MaxMembers properties, an      *)
(* anyOf of up to MaxMembers members, an enum of up to MaxMembers values.  *)

MaxMembers == 2

\* {"type": "string"} and {"type": "integer"}
TypeSchemas ==
    {PyDict(<< <<Str("type"), Str("string")>> >>),
     PyDict(<< <<Str("type"), Str("integer")>> >>)}

\* The two, and a string schema with a default or a title
LeafSchemas ==
    TypeSchemas \cup
    {PyDict(<< <<Str("type"), Str("string")>>, <<Str("default"), Str("x")>> >>),
     PyDict(<< <<Str("type"), Str("string")>>, <<Str("title"), Str("x")>> >>)}

PropertyNames == {"a", "type", "description", "required"}

\* {"type": "object", "properties": {name: leaf, ...}}, the names different
ObjectSchemas ==
    {PyDict(<< <<Str("type"), Str("object")>>,
               <<Str("properties"),
                 PyDict([n \in 1..Len(names) |-> <<Str(names[n]), leaves[n]>>])>> >>) :
       names \in {ns \in UNION {[1..k -> PropertyNames] : k \in 1..MaxMembers} :
                    \A i, j \in 1..Len(ns) : i # j => ns[i] # ns[j]},
       leaves \in [1..MaxMembers -> TypeSchemas]}

\* {"anyOf": [leaf, ...]}
AnyOfSchemas ==
    {PyDict(<< <<Str("anyOf"), PyList(members)>> >>) :
       members \in UNION {[1..k -> LeafSchemas] : k \in 1..MaxMembers}}

\* {"enum": [value, ...]}, the values among "a", 1 and {"k": 1}
EnumSchemas ==
    {PyDict(<< <<Str("enum"), PyList(values)>> >>) :
       values \in UNION {[1..k -> {Str("a"), PyInt(<<"1">>),
                                   PyDict(<< <<Str("k"), PyInt(<<"1">>)>> >>)}] :
                           k \in 1..MaxMembers}}

WellFormedSchemas == ObjectSchemas \cup AnyOfSchemas \cup EnumSchemas

RepairTexts == {json_dumps(schema)[2] : schema \in WellFormedSchemas}

Repairs == {"fix_properties_closure", "fix_bracket_mismatch",
            "fix_anyof_structure"}

\* The repair of that name (normalize_tool_schema.py, lines 44-186)
apply_repair(which, s) ==
    IF which = "fix_properties_closure" THEN fix_properties_closure(s)
    ELSE IF which = "fix_bracket_mismatch" THEN fix_bracket_mismatch(s)
    ELSE fix_anyof_structure(s)

RepairInit ==
    /\ pc = "repair"
    /\ text \in RepairTexts
    /\ repair \in Repairs
    /\ repaired = PyNone
    /\ fixed_texts = <<>>
    /\ round_trip = <<>>
    /\ IdleExcept("normalize")

\* The repair is called on the text
Repair ==
    /\ pc = "repair"
    /\ repaired' = PyStr(apply_repair(repair, text))
    /\ pc' = "repaired"
    /\ UNCHANGED <<text, notNormalize, fixed_texts, repair, round_trip>>

SpecRepair == RepairInit /\ [][Repair]_vars

---------------------------------------------------------------------------
(* Closure specification: fix_properties_closure applied to a text that    *)
(* opens a properties object, followed by up to MaxClosureLen tokens of    *)
(* ClosureToks, and to the same tokens without a properties key.           *)

MaxClosureLen == 6

ClosureToks == {LBRACE, RBRACE, COMMA, DQ, SQ, "type", "1"}

\* {"properties": {
PropertiesPrefix ==
    <<LBRACE, DQ, "properties", DQ, COLON, SPACE, LBRACE>>

ClosureBodies == UNION {[1..n -> ClosureToks] : n \in 0..MaxClosureLen}

\* {'properties': {'a': {'x': 1}, 'type1': 'object'}}
ExClosedProperties == ExUnclosedProperties \o <<RBRACE>>

ClosureTexts ==
    {PropertiesPrefix \o body : body \in ClosureBodies}
      \cup {body \in ClosureBodies : Len(body) <= 2}
      \cup {ExUnclosedProperties, ExClosedProperties}

ClosureInit ==
    /\ pc = "repair"
    /\ text \in ClosureTexts
    /\ repair = "fix_properties_closure"
    /\ repaired = PyNone
    /\ fixed_texts = <<>>
    /\ round_trip = <<>>
    /\ IdleExcept("normalize")

SpecClosure == ClosureInit /\ [][Repair]_vars

---------------------------------------------------------------------------
(* Combinator specification: fix_anyof_structure applied to a combinator   *)
(* array of two members, written as the docstring writes it: the first     *)
(* member's closing brace is missing before ",{" and up to MaxTrailing     *)
(* default, title or description pairs follow the last member inside the   *)
(* array.  Each member may hold a title or a description of its own.       *)

MaxTrailing == 2

\* ,'name':value
Pair(name, value) == <<COMMA, SQ, name, SQ, COLON>> \o value

Quoted(w) == <<SQ, w, SQ>>

\* What a member may hold besides its type
OwnPairs ==
    {<<>>, Pair("description", Quoted("a")), Pair("title", Quoted("a"))}

\* The pairs that may follow the last member
TrailingPairs ==
    {Pair("default", <<"None">>), Pair("title", Quoted("x")),
     Pair("description", Quoted("x"))}

\* {'type':'ty' and the member's own pairs, without the closing brace
Member(ty, own) == <<LBRACE>> \o Quoted("type") \o <<COLON>> \o Quoted(ty) \o own

RECURSIVE Flatten(_)
Flatten(parts) ==
    IF parts = <<>> THEN <<>> ELSE Head(parts) \o Flatten(Tail(parts))

BrokenArrays ==
    [key : CombinatorKeys, own1 : OwnPairs, own2 : OwnPairs,
     trailing : {ps \in UNION {[1..k -> TrailingPairs] : k \in 1..MaxTrailing} :
                   \A i, j \in 1..Len(ps) : i # j => ps[i] # ps[j]}]

\* {'key':[{'type':'string'...,{'type':'null'...},trailing}]}
BrokenText(r) ==
    <<LBRACE>> \o Quoted(r.key) \o <<COLON, LBRACK>>
      \o Member("string", r.own1) \o <<COMMA>>
      \o Member("null", r.own2) \o <<RBRACE>>
      \o Flatten(r.trailing) \o <<RBRACE, RBRACK, RBRACE>>

\* The docstring's input:
\* {'anyof':[{'type':'string',{'type':'null'},'default':None,'title':'X'}]}
DocstringArray ==
    [key |-> "anyof", own1 |-> <<>>, own2 |-> <<>>,
     trailing |-> <<Pair("default", <<"None">>), Pair("title", Quoted("x"))>>]

AnyOfInit ==
    /\ pc = "repair"
    /\ text \in {BrokenText(r) : r \in BrokenArrays}
    /\ repair = "fix_anyof_structure"
    /\ repaired = PyNone
    /\ fixed_texts = <<>>
    /\ round_trip = <<>>
    /\ IdleExcept("normalize")

SpecAnyOf == AnyOfInit /\ [][Repair]_vars

---------------------------------------------------------------------------
(* Round trip specification: normalize_tool_schema.parse_schema_string on  *)
(* a text, json.dumps of the schema it returned, as normalize_tool_txt     *)
(* writes it, and parse_schema_string on the text written.                 *)

\* {'a': {1}}
ExNestedSet ==
    <<LBRACE, SQ, "a", SQ, COLON, SPACE, LBRACE, "1", RBRACE, RBRACE>>

RoundTripTexts == ParseTexts \cup RepairTexts \cup {ExNestedSet}

RoundTripInit ==
    /\ pc = "parse"
    /\ text \in RoundTripTexts
    /\ round_trip = <<>>
    /\ fixed_texts = <<>>
    /\ repair = "none"
    /\ repaired = PyNone
    /\ IdleExcept("normalize")

\* Lines 441-495: parse_schema_string on the text, and later on the text
\* that was written
ParseSchema ==
    /\ pc \in {"parse", "written"}
    /\ round_trip' = Append(round_trip,
         nts_parse_schema_string(
           IF pc = "parse" THEN text ELSE Last(round_trip)[2]))
    /\ pc' = IF pc = "written" THEN "reparsed"
             ELSE IF Last(round_trip') = PyNone THEN "no_schema"
             ELSE "parsed"
    /\ UNCHANGED <<text, notNormalize, fixed_texts, repair, repaired>>

\* Lines 693-702: the schema is written with json.dumps, which may raise
Serialize ==
    /\ pc = "parsed"
    /\ round_trip' = Append(round_trip, json_dumps(round_trip[1]))
    /\ pc' = IF Last(round_trip') = Raised THEN "raised" ELSE "written"
    /\ UNCHANGED <<text, notNormalize, fixed_texts, repair, repaired>>

RoundTripNext == ParseSchema \/ Serialize

SpecRoundTrip == RoundTripInit /\ [][RoundTripNext]_vars

---------------------------------------------------------------------------
(* Normalised file specification: normalize_tool_txt on a tool file of up  *)
(* to MaxBlocks blocks, then parse_tool_schema on the file it wrote and    *)
(* one call of validate_against_schema on a stored schema.                 *)

\* The label and its colon stand at position i
LabelAt(t, i, label) ==
    i + 1 < Len(t) /\ At(t, i) = label /\ At(t, i + 1) = COLON

\* ' '.join(s.split()) of a stripped text
RECURSIVE join_split(_)
join_split(t) ==
    IF t = <<>> THEN <<>>
    ELSE IF IsSpace(Head(t)) THEN <<SPACE>> \o join_split(LStrip(Tail(t)))
    ELSE <<Head(t)>> \o join_split(Tail(t))

\* (?=\nParameters:|\nOutput:|$): the first position from e on where the
\* lookahead holds
RECURSIVE description_end(_, _)
description_end(t, e) ==
    IF e >= Len(t) THEN Len(t)
    ELSE IF At(t, e) = NL
            /\ (\/ LabelAt(t, e + 1, "Parameters")
                \/ LabelAt(t, e + 1, "Output")
                \/ e + 1 = Len(t))
      THEN e
    ELSE description_end(t, e + 1)

\* Lines 615-620: re.search(r'Description:\s*(.+?)(?=...)', block,
\* re.DOTALL), group 1 stripped and its white space joined
description(block) ==
    LET pos == FindLabel(block, "Description", 0)
        s == SkipSpace(block, pos + 2)
    IN IF pos = -1 \/ s >= Len(block) THEN <<>>
       ELSE join_split(Strip(Slice(block, s, description_end(block, s + 1))))

\* Lines 604-606: re.search(r'^(\d+)\.\s+Name:', block), '?' without match
tool_num(block) ==
    IF HeaderAt(block, 0) THEN Slice(block, 0, DigitsEnd(block, 0))
    ELSE <<"?">>

\* Lines 622-635 and 651-664: the span after the label, extracted with
\* normalize=True
span_from(block, pos) ==
    IF pos = -1 THEN PyNone
    ELSE nts_extract_balanced_braces(block, pos, TRUE)

nts_field_str(block, label) == span_from(block, FindLabel(block, label, 0))

\* What parse_schema_string returns for the span
nts_field_schema(span) ==
    IF span = PyNone THEN PyNone ELSE nts_parse_schema_string(span[2])

nts_field_spans(block) ==
    [label \in FieldLabels |-> nts_field_str(block, label)]

nts_field_schemas(spans) ==
    [label \in DOMAIN spans |-> nts_field_schema(spans[label])]

\* Lines 693-702: a schema is written with json.dumps, no schema as {}
written_schema(schema) ==
    IF Truthy(schema) THEN json_dumps(schema)
    ELSE PyStr(<<LBRACE, RBRACE>>)

written_schemas(schemas) ==
    [label \in DOMAIN schemas |-> written_schema(schemas[label])]

\* Lines 689-702; Raised when json.dumps raises
block_lines(block, written) ==
    IF Raised \in {written[label] : label \in DOMAIN written} THEN Raised
    ELSE PyStr(tool_num(block) \o <<".", SPACE, "Name", COLON, SPACE>>
                 \o name_match(block, 0)
                 \o <<NL, "Description", COLON, SPACE>> \o description(block)
                 \o <<NL, "Parameters", COLON, SPACE>>
                 \o written["Parameters"][2]
                 \o <<NL, "Output", COLON, SPACE>> \o written["Output"][2]
                 \o <<NL>>)

\* Lines 641-642 and 670-671: a span was found and gave no schema
parse_error(block, label) ==
    [tool_num |-> tool_num(block), tool_name |-> name_match(block, 0),
     field |-> label]

block_errors(block, spans, schemas) ==
    (IF spans["Parameters"] # PyNone /\ schemas["Parameters"] = PyNone
       THEN <<parse_error(block, "Parameters")>> ELSE <<>>)
      \o (IF spans["Output"] # PyNone /\ schemas["Output"] = PyNone
            THEN <<parse_error(block, "Output")>> ELSE <<>>)

block_result(block, spans, schemas) ==
    [lines  |-> block_lines(block, written_schemas(schemas)),
     errors |-> block_errors(block, spans, schemas)]

normalized_from(block, spans) ==
    block_result(block, spans, nts_field_schemas(spans))

\* Lines 600-704, one turn of the loop: a blank block is passed over, a
\* block without a name is a parse error, any other block is normalised
normalized_block(block) ==
    IF Strip(block) = <<>> THEN [lines |-> PyNone, errors |-> <<>>]
    ELSE IF name_match(block, 0) = <<>>
      THEN [lines |-> PyNone, errors |-> <<parse_error(block, "Name")>>]
    ELSE normalized_from(block, nts_field_spans(block))

collect_step(this, rest) ==
    [tools  |-> (IF this.lines \in {PyNone, Raised} THEN <<>>
                 ELSE <<this.lines[2]>>) \o rest.tools,
     errors |-> this.errors \o rest.errors,
     raised |-> this.lines = Raised \/ rest.raised]

\* normalized_tools and parse_errors after the loop; raised when a turn
\* raised
RECURSIVE collect_tools(_, _)
collect_tools(results, n) ==
    IF n > Len(results) THEN [tools |-> <<>>, errors |-> <<>>, raised |-> FALSE]
    ELSE collect_step(results[n], collect_tools(results, n + 1))

normalized_tools(blocks) ==
    collect_tools([n \in 1..Len(blocks) |-> normalized_block(blocks[n])], 1)

\* '\n'.join(normalized_tools)
RECURSIVE join_lines(_)
join_lines(parts) ==
    IF parts = <<>> THEN <<>>
    ELSE IF Len(parts) = 1 THEN parts[1]
    ELSE parts[1] \o <<NL>> \o join_lines(Tail(parts))

\* Lines 715-717 and the return: the file written and the parse errors,
\* unless a block raised before
written_file(collected) ==
    IF collected.raised THEN [written |-> Raised, parse_errors |-> <<>>]
    ELSE [written |-> PyStr(join_lines(collected.tools)),
          parse_errors |-> collected.errors]

\* normalize_tool_txt: the text written to output_path and the parse
\* errors returned
normalize_tool_txt(raw) ==
    written_file(normalized_tools(split_blocks(Strip(raw), 0, 0, <<>>)))

\* {'a': {  (the braces never balance)
SpanUnbalanced == <<LBRACE, SQ, "a", SQ, COLON, SPACE, LBRACE>>

\* What follows "Description:": nothing, text on the same line, text over
\* two lines; Absent leaves the line out
RawDescriptions ==
    {Absent, <<NL>>, <<SPACE, "d", NL>>, <<SPACE, "d", SPACE, NL, SPACE, "d", NL>>}

RawBlocks ==
    [name : {<<"a">>}, desc : RawDescriptions,
     params : {Absent, SpanString, SpanBroken, ExSetLiteral, SpanEmpty,
               SpanUnbalanced},
     output : {Absent, SpanCodeInteger, SpanBroken}]

\* "N. Name: <name>", then the lines that are present
RawBlockText(n, name, kind) ==
    <<IF n = 1 THEN "1" ELSE "2", ".", SPACE, "Name", COLON, SPACE>> \o name
      \o <<NL>>
      \o (IF kind.desc = Absent THEN <<>>
          ELSE <<"Description", COLON>> \o kind.desc)
      \o (IF kind.params = Absent THEN <<>>
          ELSE <<"Parameters", COLON, SPACE>> \o kind.params \o <<NL>>)
      \o (IF kind.output = Absent THEN <<>>
          ELSE <<"Output", COLON, SPACE>> \o kind.output \o <<NL>>)

\* The files of one tool a, of the tools a and x, and a file without a
\* tool
RawToolTexts ==
    {<<"d", NL>>}
      \cup {RawBlockText(1, <<"a">>, k) : k \in RawBlocks}
      \cup {RawBlockText(1, <<"a">>, k) \o RawBlockText(2, <<"x">>, l) :
              k \in {m \in RawBlocks :
                       m.desc = <<NL>> /\ m.output = Absent},
              l \in {m \in RawBlocks :
                       m.desc = Absent /\ m.output = Absent}}

NormalizedInit ==
    /\ pc = "normalize_txt"
    /\ text \in RawToolTexts
    /\ content = <<>>
    /\ tool_blocks = <<>>
    /\ block_i = 0
    /\ tools_schema = <<>>
    /\ fields = <<>>
    /\ validation = NotValidated
    /\ IdleExcept("catalog")

\* normalize_tool_txt(input_path, output_path): the file of output_path
\* is the one parse_tool_schema reads
NormalizeToolTxt ==
    /\ pc = "normalize_txt"
    /\ \E returned \in {normalize_tool_txt(text)} :
         IF returned.written = Raised
           THEN pc' = "raised" /\ UNCHANGED <<content, parse_errors>>
           ELSE /\ pc' = "read"
                /\ content' = returned.written[2]
                /\ parse_errors' = returned.parse_errors
    /\ UNCHANGED <<text, scanVars, parseVars, accuracyVars, normalizeVars,
                   idx, duplicateVars, renameVars, tool_blocks, block_i,
                   tools_schema, fields, validation>>

NormalizedNext == NormalizeToolTxt \/ CatalogNext

SpecNormalized == NormalizedInit /\ [][NormalizedNext]_vars

---------------------------------------------------------------------------
(* Accuracy specification: calculate_schema_validation_accuracy on up to   *)
(* MaxFolders folder paths, each missing or listing files, up to MaxFiles  *)
(* files in all, the transcripts holding up to MaxCalls calls in all.      *)
(* What a file holds is read when the file is opened.                      *)

MaxFolders == 2
MaxFiles == 2
MaxCalls == 2

\* The tool files: one tool a with Parameters {'type': 'string'} and Output
\* {'code': {'type': 'integer'}}; a file whose Output is a set literal
AccuracyToolFiles ==
    {FileText(<<BlockKind(<<"a">>, SpanString, SpanCodeInteger)>>, 1) \o <<NL>>,
     FileText(<<BlockKind(<<"a">>, Absent, ExSetLiteral)>>, 1) \o <<NL>>}

FileNames == {"question_info.json", "batch_summary.json", "t1.json", "t2.json"}

\* What glob lists in a folder: up to MaxFiles different names, in any order
Listings ==
    {l \in UNION {[1..n -> FileNames] : n \in 0..MaxFiles} :
       \A i, j \in 1..Len(l) : i # j => l[i] # l[j]}

MissingFolder == [exists |-> FALSE, files |-> <<>>]

Folders == {MissingFolder} \cup {[exists |-> TRUE, files |-> l] : l \in Listings}

RECURSIVE FilesListed(_, _)
FilesListed(folders, n) ==
    IF n > Len(folders) THEN 0
    ELSE Len(folders[n].files) + FilesListed(folders, n + 1)

FolderLists ==
    {folders \in UNION {[1..n -> Folders] : n \in 0..MaxFolders} :
       FilesListed(folders, 1) <= MaxFiles}

\* {"code": 1} and {"code": 1, "x": 1}
Code1  == PyDict(<< <<Str("code"), PyInt(<<"1">>)>> >>)
Code1X == PyDict(<< <<Str("code"), PyInt(<<"1">>)>>, <<Str("x"), PyInt(<<"1">>)>> >>)

\* {"action": {"name": name, "args": args}, "observation": observation}
CoaItem(name, args, observation) ==
    PyDict(<< <<Str("action"),
                PyDict(<< <<Str("name"), name>>, <<Str("args"), args>> >>)>>,
              <<Str("observation"), observation>> >>)

\* Calls of tool a with valid and invalid args and observations, a call of
\* a tool that is not in the tool file, a call whose name is a list, an
\* item without an action, and an action without a name
CoaItems ==
    {CoaItem(Str("a"), Str("ok"), Code1),
     CoaItem(Str("a"), Code1, Code1),
     CoaItem(Str("a"), Str("ok"), Code1X),
     CoaItem(Str("zz"), Str("ok"), Code1),
     CoaItem(PyList(<<>>), Str("ok"), Code1),
     PyDict(<< <<Str("observation"), Code1>> >>),
     PyDict(<< <<Str("action"), PyDict(<<>>)>> >>)}

\* {"response": [{"step": {"coa": items}}]}
Transcript(items) ==
    PyDict(<< <<Str("response"),
                PyList(<< PyDict(<< <<Str("step"),
                    PyDict(<< <<Str("coa"), PyList(items)>> >>)>> >>) >>)>> >>)

\* A file whose response is r, and one whose only step has the value v
WithResponse(r) == PyDict(<< <<Str("response"), r>> >>)
WithStep(v) == WithResponse(PyList(<< PyDict(<< <<Str("step"), v>> >>) >>))
WithCoa(c) == WithStep(PyDict(<< <<Str("coa"), c>> >>))

\* What json.load can return without lines 407-408 raising: a transcript;
\* a mapping, a list and a string without 'response'; a response that is
\* empty (a list, a string, a mapping); a step whose value is a mapping, a
\* string or a list without 'coa'; a coa that is a string or a mapping
\* without 'action'; a coa item that is a string without 'action'
FileData ==
    {Transcript(items) :
       items \in UNION {[1..n -> CoaItems] : n \in 0..MaxCalls}}
      \cup {PyDict(<<>>), PyList(<<>>), PyStr(<<>>),
            PyList(<< PyInt(<<"1">>) >>),
            WithResponse(PyStr(<<>>)), WithResponse(PyDict(<<>>)),
            WithStep(PyDict(<<>>)), WithStep(PyStr(<<>>)),
            WithStep(PyList(<< PyInt(<<"1">>) >>)),
            WithCoa(Str("action")), WithCoa(PyDict(<<>>)),
            WithCoa(PyDict(<< <<Str("a"), PyInt(<<"1">>)>> >>)),
            WithCoa(PyList(<< Str("a") >>))}

\* What json.load can return that makes lines 407-408 raise: a number; a
\* string or a list holding 'response'; a response that is a number, a
\* string or a mapping that is not empty; a step that is no dict; a step
\* value that is a number, or a string or a list holding 'coa'; a coa that
\* is a number or None, or a mapping with the key 'action'; a coa item that
\* is a number, or a string or a list holding 'action'; an action that is
\* no dict
RaisingFileData ==
    {PyInt(<<"1">>), Str("response"), PyList(<< Str("response") >>),
     WithResponse(PyInt(<<"1">>)), WithResponse(Str("a")),
     WithResponse(PyDict(<< <<Str("a"), PyInt(<<"1">>)>> >>)),
     WithResponse(PyList(<< PyList(<< PyInt(<<"1">>) >>) >>)),
     WithStep(PyInt(<<"1">>)), WithStep(Str("coa")),
     WithStep(PyList(<< Str("coa") >>)),
     WithCoa(PyInt(<<"1">>)), WithCoa(PyNone),
     WithCoa(PyDict(<< <<Str("action"), PyInt(<<"1">>)>> >>)),
     WithCoa(PyList(<< PyInt(<<"1">>) >>)),
     WithCoa(PyList(<< Str("action") >>)),
     WithCoa(PyList(<< PyList(<< Str("action") >>) >>)),
     WithCoa(PyList(<< PyDict(<< <<Str("action"), Str("a")>> >>) >>))}

\* `k in v` and `for x in v` raise TypeError on None, a number and a boolean
NotIterable(v) == ~IsContainer(v)

\* Lines 325-334, one coa item: 'action' in it raises; a string or a list
\* holding 'action' has no item 'action'; an action that is no dict has no get
item_raises(coa_item) ==
    \/ NotIterable(coa_item)
    \/ /\ PyContains(coa_item, Str("action"))
       /\ \/ ~IsDict(coa_item)
          \/ ~IsDict(Get(coa_item, Str("action")))

\* Lines 324-334, one coa: it is not iterable, an item of the list raises,
\* or it is a mapping with a key that holds 'action' (the key is a string
\* and has no item 'action'); the characters of a string never hold 'action'
coa_raises(coa_list) ==
    \/ NotIterable(coa_list)
    \/ /\ IsList(coa_list)
       /\ \E n \in 1..Len(coa_list[2]) : item_raises(coa_list[2][n])
    \/ /\ IsDict(coa_list)
       /\ \E n \in 1..Len(coa_list[2]) :
            PyContains(coa_list[2][n][1], Str("action"))

\* Lines 322-334, one value of a step: 'coa' in it raises; a string or a
\* list holding 'coa' has no item 'coa'; or its coa raises
value_raises(step_value) ==
    \/ NotIterable(step_value)
    \/ /\ PyContains(step_value, Str("coa"))
       /\ \/ ~IsDict(step_value)
          \/ coa_raises(Get(step_value, Str("coa")))

\* Lines 321-334: the response is not iterable; it is a string or a mapping
\* that is not empty (a character, a key has no items()); or it is a list
\* with a step that is no dict or that has a value that raises
extract_raises(response) ==
    \/ NotIterable(response)
    \/ /\ ~IsList(response)
       /\ Len(response[2]) > 0
    \/ /\ IsList(response)
       /\ \E n \in 1..Len(response[2]) :
            \/ ~IsDict(response[2][n])
            \/ \E m \in 1..Len(response[2][n][2]) :
                 value_raises(response[2][n][2][m][2])

\* Lines 407-408: 'response' in data raises; data is a string or a list
\* holding 'response' and has no item 'response'; or
\* extract_tool_calls_with_details raises on the response
response_raises(data) ==
    \/ NotIterable(data)
    \/ /\ PyContains(data, Str("response"))
       /\ \/ ~IsDict(data)
          \/ extract_raises(Get(data, Str("response")))

AccuracyInit ==
    /\ pc = "start"
    /\ text = <<>>
    /\ ScanIdle
    /\ ParseIdle
    /\ content \in AccuracyToolFiles
    /\ tool_blocks = <<>>
    /\ block_i = 0
    /\ tools_schema = <<>>
    /\ fields = <<>>
    /\ validation = NotValidated
    /\ data_folders \in FolderLists
    /\ folder_i = 0
    /\ json_files = <<>>
    /\ file_i = 0
    /\ tool_calls = <<>>
    /\ call_i = 0
    /\ CountersZero
    /\ file_total_calls = 0
    /\ file_valid_calls = 0
    /\ file_action_valid_calls = 0
    /\ file_observation_valid_calls = 0
    /\ file_invalid_details = <<>>
    /\ printed = <<>>
    /\ accuracy_result = PyNone
    /\ NormalizeIdle
    /\ UtilityIdle

\* The path of the file being handled
CurrentFile == <<folder_i, json_files[file_i]>>

\* Line 352: the Catalog is built; an exception of parse_tool_schema ends
\* the function.
LoadCatalog ==
    /\ pc = "start"
    /\ \E catalog \in {parse_tool_schema(content)} :
         IF catalog = Raised
           THEN /\ pc' = "raised"
                /\ UNCHANGED <<tools_schema, folder_i>>
           ELSE /\ tools_schema' = catalog[2]
                /\ folder_i' = 1
                /\ pc' = "folders"
    /\ UNCHANGED <<text, notAccuracy, data_folders, json_files, file_i,
                   tool_calls, call_i, overallVars, fileVars,
                   per_file_results, printed, accuracy_result>>

\* Lines 381-383: a folder that does not exist is passed over.
SkipFolder ==
    /\ pc = "folders"
    /\ folder_i <= Len(data_folders)
    /\ ~data_folders[folder_i].exists
    /\ printed' = Append(printed, [what |-> "folder_missing", folder |-> folder_i])
    /\ folder_i' = folder_i + 1
    /\ UNCHANGED <<pc, text, notAccuracy, tools_schema, data_folders,
                   json_files, file_i, tool_calls, call_i, overallVars,
                   fileVars, per_file_results, accuracy_result>>

\* Lines 385-388: the JSON files of the folder are listed.
ListFolder ==
    /\ pc = "folders"
    /\ folder_i <= Len(data_folders)
    /\ data_folders[folder_i].exists
    /\ printed' = Append(printed, [what |-> "folder", folder |-> folder_i])
    /\ json_files' = data_folders[folder_i].files
    /\ file_i' = 1
    /\ pc' = "files"
    /\ UNCHANGED <<text, notAccuracy, tools_schema, data_folders, folder_i,
                   tool_calls, call_i, overallVars, fileVars,
                   per_file_results, accuracy_result>>

\* Lines 392-393: the two special files are passed over.
SkipFile ==
    /\ pc = "files"
    /\ file_i <= Len(json_files)
    /\ json_files[file_i] \in {"question_info.json", "batch_summary.json"}
    /\ file_i' = file_i + 1
    /\ UNCHANGED <<pc, text, notAccuracy, tools_schema, data_folders,
                   folder_i, json_files, tool_calls, call_i, overallVars,
                   fileVars, per_file_results, printed, accuracy_result>>

\* An exception of a file that is caught outside the loop over the files:
\* the rest of the folder is given up
OpenFileRaisesLeavesFolder ==
    /\ pc = "files"
    /\ file_i <= Len(json_files)
    /\ json_files[file_i] \notin {"question_info.json", "batch_summary.json"}
    /\ printed' = Append(printed, [what |-> "file_error", file |-> CurrentFile])
    /\ folder_i' = folder_i + 1
    /\ pc' = "folders"
    /\ UNCHANGED <<text, notAccuracy, tools_schema, data_folders,
                   json_files, file_i, tool_calls, call_i, overallVars,
                   fileVars, per_file_results, accuracy_result>>

\* Lines 395-398 and 491-493: opening or loading the file raises; the
\* error is printed and the loop goes on with the next file.
OpenFileRaises ==
    /\ pc = "files"
    /\ file_i <= Len(json_files)
    /\ json_files[file_i] \notin {"question_info.json", "batch_summary.json"}
    /\ printed' = Append(printed, [what |-> "file_error", file |-> CurrentFile])
    /\ file_i' = file_i + 1
    /\ UNCHANGED <<pc, text, notAccuracy, tools_schema, data_folders,
                   folder_i, json_files, tool_calls, call_i, overallVars,
                   fileVars, per_file_results, accuracy_result>>

\* Lines 395-408 and 491-493: the file is loaded and the counters of the
\* file are reset, then reading its response raises; the error is printed
\* and the loop goes on with the next file.
ReadResponseRaises ==
    /\ pc = "files"
    /\ file_i <= Len(json_files)
    /\ json_files[file_i] \notin {"question_info.json", "batch_summary.json"}
    /\ {data \in FileData \cup RaisingFileData : response_raises(data)} # {}
    /\ file_total_calls' = 0
    /\ file_valid_calls' = 0
    /\ file_action_valid_calls' = 0
    /\ file_observation_valid_calls' = 0
    /\ file_invalid_details' = <<>>
    /\ printed' = Append(printed, [what |-> "file_error", file |-> CurrentFile])
    /\ file_i' = file_i + 1
    /\ UNCHANGED <<pc, text, notAccuracy, tools_schema, data_folders,
                   folder_i, json_files, tool_calls, call_i, overallVars,
                   per_file_results, accuracy_result>>

\* Lines 395-411: the file is loaded, the counters of the file are reset
\* and the calls of its response are extracted.
OpenFile ==
    /\ pc = "files"
    /\ file_i <= Len(json_files)
    /\ json_files[file_i] \notin {"question_info.json", "batch_summary.json"}
    /\ \E data \in {d \in FileData \cup RaisingFileData :
                      ~response_raises(d)} :
         tool_calls' =
           IF IsDict(data) /\ HasKey(data, Str("response"))
             THEN extract_tool_calls_with_details(Get(data, Str("response")), 1)
             ELSE <<>>
    /\ total_calls + Len(tool_calls') <= MaxCalls
    /\ call_i' = 1
    /\ file_total_calls' = 0
    /\ file_valid_calls' = 0
    /\ file_action_valid_calls' = 0
    /\ file_observation_valid_calls' = 0
    /\ file_invalid_details' = <<>>
    /\ pc' = "calls"
    /\ UNCHANGED <<text, notAccuracy, tools_schema, data_folders, folder_i,
                   json_files, file_i, overallVars, per_file_results,
                   printed, accuracy_result>>

\* Lines 413-420 and 491-493: the call is counted, then the lookup of a
\* name that cannot be hashed raises; the file is given up.
CallRaises ==
    /\ pc = "calls"
    /\ call_i <= Len(tool_calls)
    /\ ~Hashable(tool_calls[call_i].tool_name)
    /\ file_total_calls' = file_total_calls + 1
    /\ total_calls' = total_calls + 1
    /\ printed' = Append(printed, [what |-> "file_error", file |-> CurrentFile])
    /\ file_i' = file_i + 1
    /\ pc' = "files"
    /\ UNCHANGED <<text, notAccuracy, tools_schema, data_folders, folder_i,
                   json_files, tool_calls, call_i, valid_calls,
                   action_valid_calls, observation_valid_calls,
                   error_type_stats, file_valid_calls,
                   file_action_valid_calls, file_observation_valid_calls,
                   file_invalid_details, per_file_results, accuracy_result>>

\* A lookup that stores an entry without schemas for a name it does not
\* find, as the lookup of a defaultdict does
CallToolNotFoundStoresEntry ==
    /\ pc = "calls"
    /\ call_i <= Len(tool_calls)
    /\ Hashable(tool_calls[call_i].tool_name)
    /\ ~InCatalog(tools_schema, tool_calls[call_i].tool_name)
    /\ tools_schema' =
         Append(tools_schema,
                <<tool_calls[call_i].tool_name,
                  [input_schema |-> PyNone, output_schema |-> PyNone]>>)
    /\ file_total_calls' = file_total_calls + 1
    /\ total_calls' = total_calls + 1
    /\ error_type_stats' =
         [error_type_stats EXCEPT !["tool_not_found"] = @ + 1]
    /\ file_invalid_details' =
         Append(file_invalid_details,
                not_found_info(tool_calls[call_i].tool_name))
    /\ call_i' = call_i + 1
    /\ UNCHANGED <<pc, text, notAccuracy, data_folders,
                   folder_i, json_files, file_i, tool_calls, valid_calls,
                   action_valid_calls, observation_valid_calls,
                   file_valid_calls, file_action_valid_calls,
                   file_observation_valid_calls, per_file_results, printed,
                   accuracy_result>>

\* Lines 413-431: a call of a tool that is not in the Catalog.
CallToolNotFound ==
    /\ pc = "calls"
    /\ call_i <= Len(tool_calls)
    /\ Hashable(tool_calls[call_i].tool_name)
    /\ ~InCatalog(tools_schema, tool_calls[call_i].tool_name)
    /\ file_total_calls' = file_total_calls + 1
    /\ total_calls' = total_calls + 1
    /\ error_type_stats' =
         [error_type_stats EXCEPT !["tool_not_found"] = @ + 1]
    /\ file_invalid_details' =
         Append(file_invalid_details,
                not_found_info(tool_calls[call_i].tool_name))
    /\ call_i' = call_i + 1
    /\ UNCHANGED <<pc, text, notAccuracy, tools_schema, data_folders,
                   folder_i, json_files, file_i, tool_calls, valid_calls,
                   action_valid_calls, observation_valid_calls,
                   file_valid_calls, file_action_valid_calls,
                   file_observation_valid_calls, per_file_results, printed,
                   accuracy_result>>

\* Lines 413-474: a call of a tool of the Catalog; its args and its
\* observation are validated and the call is counted.
CallValidated ==
    /\ pc = "calls"
    /\ call_i <= Len(tool_calls)
    /\ Hashable(tool_calls[call_i].tool_name)
    /\ InCatalog(tools_schema, tool_calls[call_i].tool_name)
    /\ file_total_calls' = file_total_calls + 1
    /\ total_calls' = total_calls + 1
    /\ \E a \in {validate_against_schema(tool_calls[call_i].args,
                   SchemaOf(tools_schema,
                     tool_calls[call_i].tool_name).input_schema)} :
       \E o \in {validate_against_schema(tool_calls[call_i].observation,
                   SchemaOf(tools_schema,
                     tool_calls[call_i].tool_name).output_schema)} :
       \E a_type \in a.kinds :
       \E o_type \in o.kinds :
         file_invalid_details' =
           Append(file_invalid_details,
             call_info(tool_calls[call_i].tool_name, a, a_type, o, o_type))
    /\ error_type_stats' =
         count_error_types(error_type_stats, Last(file_invalid_details'))
    /\ IF Last(file_invalid_details').action_valid
         THEN /\ file_action_valid_calls' = file_action_valid_calls + 1
              /\ action_valid_calls' = action_valid_calls + 1
         ELSE UNCHANGED <<file_action_valid_calls, action_valid_calls>>
    /\ IF Last(file_invalid_details').observation_valid
         THEN /\ file_observation_valid_calls' =
                   file_observation_valid_calls + 1
              /\ observation_valid_calls' = observation_valid_calls + 1
         ELSE UNCHANGED <<file_observation_valid_calls,
                          observation_valid_calls>>
    /\ IF /\ Last(file_invalid_details').action_valid
          /\ Last(file_invalid_details').observation_valid
         THEN /\ file_valid_calls' = file_valid_calls + 1
              /\ valid_calls' = valid_calls + 1
         ELSE UNCHANGED <<file_valid_calls, valid_calls>>
    /\ call_i' = call_i + 1
    /\ UNCHANGED <<pc, text, notAccuracy, tools_schema, data_folders,
                   folder_i, json_files, file_i, tool_calls,
                   per_file_results, printed, accuracy_result>>

\* Lines 477-489: the calls of the file are done; its result is recorded.
RecordFile ==
    /\ pc = "calls"
    /\ call_i > Len(tool_calls)
    /\ per_file_results' =
         Append(per_file_results,
           file_result(CurrentFile, file_total_calls, file_valid_calls,
                       file_action_valid_calls, file_observation_valid_calls,
                       file_invalid_details))
    /\ file_i' = file_i + 1
    /\ pc' = "files"
    /\ UNCHANGED <<text, notAccuracy, tools_schema, data_folders, folder_i,
                   json_files, tool_calls, call_i, overallVars, fileVars,
                   printed, accuracy_result>>

\* Line 390: the files of the folder are done.
NextFolder ==
    /\ pc = "files"
    /\ file_i > Len(json_files)
    /\ folder_i' = folder_i + 1
    /\ pc' = "folders"
    /\ UNCHANGED <<text, notAccuracy, tools_schema, data_folders,
                   json_files, file_i, tool_calls, call_i, overallVars,
                   fileVars, per_file_results, printed, accuracy_result>>

\* Lines 496-512: the folders are done; the result is returned.
ReturnResult ==
    /\ pc = "folders"
    /\ folder_i > Len(data_folders)
    /\ accuracy_result' =
         [per_file_results |-> per_file_results,
          overall |->
            [Acc_schema |-> Acc_schema(valid_calls, total_calls),
             total_calls |-> total_calls,
             valid_calls |-> valid_calls,
             invalid_calls |-> total_calls - valid_calls,
             action_valid_calls |-> action_valid_calls,
             observation_valid_calls |-> observation_valid_calls,
             error_type_breakdown |-> error_type_stats]]
    /\ pc' = "returned"
    /\ UNCHANGED <<text, notAccuracy, tools_schema, loopVars, overallVars,
                   fileVars, per_file_results, printed>>

\* The steps of the loops over the folders, the files and the calls
AccuracyLoop ==
    \/ SkipFolder \/ ListFolder \/ SkipFile \/ OpenFileRaises
    \/ ReadResponseRaises \/ OpenFile
    \/ CallRaises \/ CallToolNotFound \/ CallValidated \/ RecordFile
    \/ NextFolder \/ ReturnResult

AccuracyNext == LoadCatalog \/ AccuracyLoop

SpecAccuracy == AccuracyInit /\ [][AccuracyNext]_vars

\* The function keeps running: a step of the loops that can be taken is
\* taken in the end
SpecAccuracyLive == SpecAccuracy /\ WF_vars(AccuracyLoop)

---------------------------------------------------------------------------
(* Duplicates specification: calculate_duplicate_metrics on every list of  *)
(* up to MaxDupCalls calls of the tools of DupNames with the args of       *)
(* DupArgs, one step per call of the loop.                                 *)

MaxDupCalls == 3

DupNames == {Str("a"), Str("x")}

Int1 == PyInt(<<"1">>)

\* {}, {"k": 1}, {"k": "1"}, {"a": 1, "k": 1}, {"k": 1, "a": 1},
\* {"k": {"x": [1], "a": None}}
DupArgs ==
    {PyDict(<<>>),
     PyDict(<< <<Str("k"), Int1>> >>),
     PyDict(<< <<Str("k"), Str("1")>> >>),
     PyDict(<< <<Str("a"), Int1>>, <<Str("k"), Int1>> >>),
     PyDict(<< <<Str("k"), Int1>>, <<Str("a"), Int1>> >>),
     PyDict(<< <<Str("k"),
                 PyDict(<< <<Str("x"), PyList(<<Int1>>)>>,
                           <<Str("a"), PyNone>> >>)>> >>)}

DupCalls ==
    [tool_name : DupNames, args : DupArgs, step : {PyStr(<<"step", "1">>)}]

DuplicatesInit ==
    /\ pc = "metrics"
    /\ text = <<>>
    /\ calls \in UNION {[1..n -> DupCalls] : n \in 0..MaxDupCalls}
    /\ idx = 0
    /\ seen_signatures = {}
    /\ seen_tools = {}
    /\ prev_signature = PyNone
    /\ exact_dup_count = 0
    /\ tool_dup_count = 0
    /\ consecutive_dup_count = 0
    /\ duplicate_details = <<>>
    /\ tool_calls_map = <<>>
    /\ duplicate_metrics = PyNone
    /\ IdleExcept("duplicate")

\* Lines 148-161: no call, everything is zero
NoCalls ==
    /\ pc = "metrics"
    /\ calls = <<>>
    /\ duplicate_metrics' = metrics(0, 0, 0, 0, <<0, 1>>, <<>>)
    /\ pc' = "returned"
    /\ UNCHANGED <<text, notDuplicate, idx, calls, seen_signatures,
                   seen_tools, prev_signature, exact_dup_count,
                   tool_dup_count, consecutive_dup_count, duplicate_details,
                   tool_calls_map>>

\* Lines 180-213: one turn of the loop, for the call at index idx
CountCall ==
    /\ pc = "metrics"
    /\ idx < Len(calls)
    /\ \E signature \in {get_call_signature(calls[idx + 1].tool_name,
                                             calls[idx + 1].args)} :
         LET call == calls[idx + 1]
             is_exact_dup == signature \in seen_signatures
             is_tool_dup == call.tool_name \in seen_tools
             is_consecutive_dup ==
               prev_signature # PyNone /\ signature = prev_signature
         IN /\ exact_dup_count' =
                 exact_dup_count + (IF is_exact_dup THEN 1 ELSE 0)
            /\ tool_dup_count' =
                 tool_dup_count + (IF is_tool_dup THEN 1 ELSE 0)
            /\ consecutive_dup_count' =
                 consecutive_dup_count + (IF is_consecutive_dup THEN 1 ELSE 0)
            /\ duplicate_details' =
                 IF is_exact_dup \/ is_consecutive_dup
                   THEN Append(duplicate_details,
                          [call_index |-> idx,
                           step |-> call.step,
                           tool_name |-> call.tool_name,
                           args |-> call.args,
                           is_exact_dup |-> is_exact_dup,
                           is_consecutive_dup |-> is_consecutive_dup])
                   ELSE duplicate_details
            /\ seen_signatures' = seen_signatures \cup {signature}
            /\ seen_tools' = seen_tools \cup {call.tool_name}
            /\ prev_signature' = signature
            /\ tool_calls_map' =
                 map_append(tool_calls_map, call.tool_name, call.args)
    /\ idx' = idx + 1
    /\ UNCHANGED <<pc, text, notDuplicate, calls, duplicate_metrics>>

\* Lines 215-237: the similarities are averaged and the metrics returned
ReturnMetrics ==
    /\ pc = "metrics"
    /\ calls # <<>>
    /\ idx = Len(calls)
    /\ duplicate_metrics' =
         metrics(Len(calls), exact_dup_count, tool_dup_count,
                 consecutive_dup_count,
                 avg_param_similarity(param_similarities(tool_calls_map, 1)),
                 duplicate_details)
    /\ pc' = "returned"
    /\ UNCHANGED <<text, notDuplicate, idx, calls, seen_signatures,
                   seen_tools, prev_signature, exact_dup_count,
                   tool_dup_count, consecutive_dup_count, duplicate_details,
                   tool_calls_map>>

DuplicatesNext == NoCalls \/ CountCall \/ ReturnMetrics

SpecDuplicates == DuplicatesInit /\ [][DuplicatesNext]_vars

---------------------------------------------------------------------------
(* Rename specification: rename_json_files_in_folder (name_file.py) on     *)
(* every folder with up to MaxRenameFiles renamable JSON files, one step   *)
(* per rename.  A file name is the sequence of its parts; a folder maps    *)
(* the names of its files to their contents.                               *)

MaxRenameFiles == 3

JSON == ".json"

Digits == <<"0", "1", "2", "3", "4", "5", "6", "7", "8", "9">>

\* f"{idx:03d}", for idx below 1000
Format03d(i) ==
    <<Digits[((i \div 100) % 10) + 1], Digits[((i \div 10) % 10) + 1],
      Digits[(i % 10) + 1]>>

\* Line 71: f"temp_{idx:03d}.json"
TempName(i) == <<"temp_">> \o Format03d(i) \o <<JSON>>

\* Line 92: f"run_{idx:03d}.json"
RunName(i) == <<"run_">> \o Format03d(i) \o <<JSON>>

\* Line 49
SpecialFiles == {<<"question_info", JSON>>, <<"batch_summary", JSON>>}

\* The parts of the names, in the order of their first characters
NameParts ==
    <<JSON, "0", "1", "2", "3", "4", "5", "6", "7", "8", "9", "a",
      "batch_summary", "question_info", "run_", "temp_", "z">>

PartRank(w) == CHOOSE i \in 1..Len(NameParts) : NameParts[i] = w

\* The order of the names as strings (line 48: sorted)
RECURSIVE NameLess(_, _)
NameLess(n, m) ==
    IF n = <<>> THEN m # <<>>
    ELSE IF m = <<>> THEN FALSE
    ELSE IF Head(n) = Head(m) THEN NameLess(Tail(n), Tail(m))
    ELSE PartRank(Head(n)) < PartRank(Head(m))

RECURSIVE sorted_names(_)
sorted_names(S) ==
    IF S = {} THEN <<>>
    ELSE LET first == CHOOSE n \in S : \A m \in S \ {n} : NameLess(n, m)
         IN <<first>> \o sorted_names(S \ {first})

\* Lines 46-51: the JSON files of the folder but the special ones, sorted
rename_json_files(files) == sorted_names(DOMAIN files \ SpecialFiles)

\* Path.rename: a missing source raises; a name renamed to itself stays;
\* an existing target is replaced on POSIX and raises on Windows
rename(files, src, dst, replaces) ==
    IF src \notin DOMAIN files THEN [ok |-> FALSE, files |-> files]
    ELSE IF src = dst THEN [ok |-> TRUE, files |-> files]
    ELSE IF dst \in DOMAIN files /\ ~replaces
      THEN [ok |-> FALSE, files |-> files]
    ELSE [ok |-> TRUE,
          files |-> [n \in (DOMAIN files \ {src}) \cup {dst} |->
                       IF n = dst THEN files[src] ELSE files[n]]]

RenameNames ==
    {<<"a", JSON>>, <<"z", JSON>>}
      \cup {TempName(i) : i \in 1..MaxRenameFiles}
      \cup {RunName(i) : i \in 1..MaxRenameFiles}

\* Every file holds its own first name, so that the contents tell the
\* files apart
RenameFolders ==
    {[exists |-> FALSE, files |-> <<>>]}
      \cup {[exists |-> TRUE, files |-> [n \in S \cup T |-> n]] :
              S \in {R \in SUBSET RenameNames :
                       Cardinality(R) <= MaxRenameFiles},
              T \in SUBSET SpecialFiles}

RenameInit ==
    /\ pc = "rename"
    /\ text = <<>>
    /\ folder \in RenameFolders
    /\ folder_before = folder
    /\ dry_run \in BOOLEAN
    /\ posix \in BOOLEAN
    /\ old_files = <<>>
    /\ temp_files = <<>>
    /\ idx = 0
    /\ stage1_count = 0
    /\ stage2_count = 0
    /\ IdleExcept("rename")

\* Lines 38-40: the folder does not exist
FolderMissing ==
    /\ pc = "rename"
    /\ ~folder.exists
    /\ pc' = "returned"
    /\ UNCHANGED <<text, notRename, idx, renameVars>>

\* Lines 46-55: no file to rename
NoJsonFiles ==
    /\ pc = "rename"
    /\ folder.exists
    /\ rename_json_files(folder.files) = <<>>
    /\ pc' = "returned"
    /\ UNCHANGED <<text, notRename, idx, renameVars>>

\* Lines 46-66: the files to rename are listed once, in sorted order
ListJsonFiles ==
    /\ pc = "rename"
    /\ folder.exists
    /\ old_files' = rename_json_files(folder.files)
    /\ old_files' # <<>>
    /\ pc' = "stage1"
    /\ UNCHANGED <<text, notRename, idx, folder, folder_before, dry_run,
                   posix, temp_files, stage1_count, stage2_count>>

\* Lines 70-83: one turn of the first loop, for the file at index idx
Stage1Rename ==
    /\ pc = "stage1"
    /\ idx < Len(old_files)
    /\ idx' = idx + 1
    /\ LET old_file == old_files[idx + 1]
           temp_path == TempName(idx + 1)
       IN IF dry_run
            THEN /\ temp_files' = Append(temp_files, <<temp_path, idx + 1>>)
                 /\ UNCHANGED <<folder, stage1_count>>
            ELSE \E r \in {rename(folder.files, old_file, temp_path, posix)} :
                   /\ folder' = [folder EXCEPT !.files = r.files]
                   /\ temp_files' =
                        IF r.ok THEN Append(temp_files, <<temp_path, idx + 1>>)
                        ELSE temp_files
                   /\ stage1_count' = stage1_count + (IF r.ok THEN 1 ELSE 0)
    /\ UNCHANGED <<pc, text, notRename, folder_before, dry_run, posix,
                   old_files, stage2_count>>

\* Lines 85-90: the first loop is over
Stage1Done ==
    /\ pc = "stage1"
    /\ idx = Len(old_files)
    /\ pc' = "stage2"
    /\ idx' = 0
    /\ UNCHANGED <<text, notRename, renameVars>>

\* Lines 94-105: one turn of the second loop, for the pair at index idx
Stage2Rename ==
    /\ pc = "stage2"
    /\ idx < Len(temp_files)
    /\ idx' = idx + 1
    /\ LET temp_path == temp_files[idx + 1][1]
           final_path == RunName(temp_files[idx + 1][2])
       IN IF dry_run
            THEN UNCHANGED <<folder, stage2_count>>
            ELSE \E r \in {rename(folder.files, temp_path, final_path, posix)} :
                   /\ folder' = [folder EXCEPT !.files = r.files]
                   /\ stage2_count' = stage2_count + (IF r.ok THEN 1 ELSE 0)
    /\ UNCHANGED <<pc, text, notRename, folder_before, dry_run, posix,
                   old_files, temp_files, stage1_count>>

\* Lines 107-110: the second loop is over
RenameReturn ==
    /\ pc = "stage2"
    /\ idx = Len(temp_files)
    /\ pc' = "returned"
    /\ UNCHANGED <<text, notRename, idx, renameVars>>

RenameNext ==
    \/ FolderMissing
    \/ NoJsonFiles
    \/ ListJsonFiles
    \/ Stage1Rename
    \/ Stage1Done
    \/ Stage2Rename
    \/ RenameReturn

SpecRename == RenameInit /\ [][RenameNext]_vars

---------------------------------------------------------------------------
(* What "outside string literals" means (spec section 4.1), position by    *)
(* position, for the scan that starts at the brace at position b.          *)

\* Position k holds the character escaped by a backslash at k-1.
RECURSIVE Escaped(_, _, _)
Escaped(t, b, k) == k > b /\ At(t, k - 1) = BSL /\ ~Escaped(t, b, k - 1)

\* Position k holds a character with a lexical role: it is neither escaped
\* nor an escaping backslash.
Lexical(t, b, k) == ~Escaped(t, b, k) /\ At(t, k) # BSL

\* The quote character of the string that is open when position k is read
\* (NoStr outside strings).
RECURSIVE OpenQuote(_, _, _)
OpenQuote(t, b, k) ==
    IF k <= b THEN NoStr
    ELSE LET q == OpenQuote(t, b, k - 1)
             c == At(t, k - 1)
         IN IF ~Lexical(t, b, k - 1) THEN q
            ELSE IF q = NoStr THEN (IF c \in {DQ, SQ} THEN c ELSE NoStr)
            ELSE IF c = q THEN NoStr
            ELSE q

BraceAt(t, b, k, brace) ==
    Lexical(t, b, k) /\ OpenQuote(t, b, k) = NoStr /\ At(t, k) = brace

\* Nesting depth after position k.
Depth(t, b, k) ==
    Cardinality({m \in b..k : BraceAt(t, b, m, LBRACE)})
      - Cardinality({m \in b..k : BraceAt(t, b, m, RBRACE)})

DepthZero(t, b) == {k \in b..(Len(t) - 1) : Depth(t, b, k) = 0}

Least(S) == CHOOSE x \in S : \A y \in S : x <= y

\* Position j lies inside a string literal that is closed later on.
InsideLiteral(t, b, j) ==
    /\ OpenQuote(t, b, j) # NoStr
    /\ \E k \in j..(Len(t) - 1) : OpenQuote(t, b, k + 1) = NoStr

(* C1: schema_validation_accuracy.extract_balanced_braces returns the span *)
(* from the first "{" at or after start to the first position where the    *)
(* depth, counted outside string literals, is back to zero; it returns     *)
(* None exactly when there is no "{" or the depth never returns to zero;   *)
(* a character after an escaping backslash has no lexical role; the        *)
(* spec's example is returned whole.                                       *)
C1_ScannerContract ==
    pc = "scanned" =>
      LET b == Find(text, LBRACE, start_pos) IN
      /\ IF b = -1 \/ DepthZero(text, b) = {}
           THEN scanned.sva = PyNone
           ELSE scanned.sva = PyStr(Slice(text, b, Least(DepthZero(text, b)) + 1))
      /\ (text = ScanExample /\ start_pos = 0) => scanned.sva = PyStr(ScanExample)

\* The spec's example was scanned: the "}" inside the string did not end it.
C1_Witness ==
    /\ pc = "scanned"
    /\ text = ScanExample
    /\ start_pos = 0
    /\ scanned.sva = PyStr(ScanExample)

(* C2: normalize_tool_schema.extract_balanced_braces (normalize=True)      *)
(* never ends the span it returns at a "}" that lies inside a string       *)
(* literal of the input.                                                   *)
C2_NeverEndsInsideString ==
    (pc = "scanned" /\ scanned.nts # PyNone) =>
      LET b == Find(text, LBRACE, start_pos)
          j == b + Len(scanned.nts[2]) - 1
      IN ~InsideLiteral(text, b, j)

---------------------------------------------------------------------------
(* Claims about parse_schema_string                                        *)

EmptyDict == PyDict(<<>>)

\* The first non-empty mapping among the outcomes rs, None when there is none
FirstNonEmpty(rs) ==
    LET F == {n \in 1..Len(rs) : NonEmptyDict(rs[n])} IN
    IF F = {} THEN PyNone ELSE rs[Least(F)]

\* What every try block of the running implementation yields on the text
AllOutcomes ==
    IF impl = "nts"
      THEN <<nts_strategy1(text), nts_strategy2(text), nts_strategy3(text),
             nts_strategy4(text)>>
      ELSE <<sva_method1(text), sva_method2(text), sva_method3(text)>>

(* C3: normalize_tool_schema.parse_schema_string tries strategy 1          *)
(* (normalize_quotes, fix_json_string, JSON), 2 (Python literal), 3        *)
(* (None/True/False and quote substitution, JSON), 4 (fix_json_string      *)
(* alone, JSON) in this order and returns the value of the first one that  *)
(* yields a mapping with at least one key; a strategy that raises or       *)
(* yields an empty mapping or a non-mapping is skipped, no strategy after  *)
(* the accepted one is run, and None is returned when none is accepted.    *)
C3_FixedStrategyOrder ==
    (impl = "nts" /\ pc = "returned" /\ tried # <<>>) =>
      LET rs == AllOutcomes
          F  == {n \in 1..4 : NonEmptyDict(rs[n])}
      IN /\ result = FirstNonEmpty(rs)
         /\ tried = SubSeq(rs, 1, IF F = {} THEN 4 ELSE Least(F))

\* Strategies 1 and 2 failed on {"a": ["b", {"c": null}]} and the mapping of
\* strategy 3 was returned.
C3_Witness ==
    /\ impl = "nts"
    /\ pc = "returned"
    /\ text = ExStringBeforeObject
    /\ Len(tried) = 3
    /\ ~NonEmptyDict(tried[1])
    /\ ~NonEmptyDict(tried[2])
    /\ NonEmptyDict(result)

(* C4: in both parse_schema_string implementations an empty mapping {}     *)
(* yielded by a strategy is not returned while a later strategy yields a   *)
(* non-empty mapping, and {} (not None) is returned when every strategy    *)
(* yields only {} or nothing and at least one yields {}.                   *)
C4_EmptyMappingLastResort ==
    (pc = "returned" /\ tried # <<>>) =>
      LET rs == AllOutcomes IN
      /\ (result = EmptyDict /\ tried[Len(tried)] = EmptyDict) =>
           \A m \in (Len(tried) + 1)..Len(rs) : ~NonEmptyDict(rs[m])
      /\ ( /\ \A n \in 1..Len(rs) : rs[n] \in {EmptyDict, PyNone, Raised}
           /\ \E n \in 1..Len(rs) : rs[n] = EmptyDict )
           => result = EmptyDict

\* The text is a span as the catalog builder cuts it: what
\* extract_balanced_braces returns for it is the whole text.
IsSpan(t) == sva_extract_balanced_braces(t, 0) = PyStr(t)

(* C5: for every brace-delimited span, parse_schema_string (both           *)
(* implementations) returns None or a mapping, never a set, list, string   *)
(* or number.                                                              *)
C5_ParserReturnsMapping ==
    (pc = "returned" /\ IsSpan(text)) => (result = PyNone \/ IsDict(result))

---------------------------------------------------------------------------
(* Claims about the Catalog                                                *)

\* The records of the blocks whose entry was stored (the block at which
\* parse_tool_schema raised stored none)
Stored == IF pc = "raised" THEN SubSeq(fields, 1, Len(fields) - 1) ELSE fields

\* The record of the last stored block with the name of entry n
LastField(n) ==
    Stored[CHOOSE m \in 1..Len(Stored) :
             /\ PyStr(Stored[m].tool_name) = tools_schema[n][1]
             /\ \A j \in (m + 1)..Len(Stored) :
                  Stored[j].tool_name # Stored[m].tool_name]

HasTopLevelType(schema) == IsDict(schema) /\ HasKey(schema, Str("type"))

\* out is exactly {type: "object", properties: raw, required: keys of raw,
\* additionalProperties: false}
IsWrapperOf(out, raw) ==
    /\ IsDict(out)
    /\ Len(out[2]) = 4
    /\ {out[2][n][1] : n \in 1..4} =
         {Str("type"), Str("properties"), Str("required"),
          Str("additionalProperties")}
    /\ Get(out, Str("type")) = Str("object")
    /\ Get(out, Str("properties")) = raw
    /\ IsList(Get(out, Str("required")))
    /\ Get(out, Str("required"))[2] = Keys(raw)
    /\ Get(out, Str("additionalProperties")) = PyBool(FALSE)

(* C6: complete_output_schema(raw) is None when raw is None, raw itself    *)
(* when raw has a top-level "type" key, and otherwise exactly {type:       *)
(* "object", properties: raw, required: all keys of raw,                   *)
(* additionalProperties: false} with raw unchanged inside it - for every   *)
(* raw that is None or a mapping, as the parser's value of each stored     *)
(* block's Output span shows.                                              *)
C6_CompletionContract ==
    \A n \in 1..Len(tools_schema) :
      LET raw == LastField(n).output_schema
          out == tools_schema[n][2].output_schema
      IN (raw = PyNone \/ IsDict(raw)) =>
           IF raw = PyNone THEN out = PyNone
           ELSE IF HasKey(raw, Str("type")) THEN out = raw
           ELSE IsWrapperOf(out, raw)

\* All three cases are stored in one Catalog: tool "a" with the bare map
\* {'code': {'type': 'int'}} wrapped, tool "x" with {'type': 'string'} kept.
C6_Witness ==
    /\ pc = "built"
    /\ Len(tools_schema) = 2
    /\ ~HasTopLevelType(LastField(1).output_schema)
    /\ IsDict(LastField(1).output_schema)
    /\ Keys(LastField(1).output_schema) = <<Str("code")>>
    /\ IsWrapperOf(tools_schema[1][2].output_schema, LastField(1).output_schema)
    /\ HasTopLevelType(LastField(2).output_schema)
    /\ tools_schema[2][2].output_schema = LastField(2).output_schema

(* C7: after parse_tool_schema every Catalog entry's output_schema is None *)
(* or has a top-level "type" key, and its input_schema is exactly what the *)
(* parser returned for the Parameters span (no completion applied).        *)
C7_OutputHasTypeInputAsParsed ==
    pc \in {"built", "validated"} =>
      \A n \in 1..Len(tools_schema) :
        /\ \/ tools_schema[n][2].output_schema = PyNone
           \/ HasTopLevelType(tools_schema[n][2].output_schema)
        /\ tools_schema[n][2].input_schema =
             field_schema(LastField(n).params_str)

\* The draft-7 meta-schema, for the keywords of this model: "type" is a
\* type name or a non-empty list of distinct type names, "properties" maps
\* to schemas, "required" is a list of distinct strings,
\* "additionalProperties" is a schema; a schema is a mapping or a boolean.
RECURSIVE WellFormedDraft7(_)
WellFormedDraft7(schema) ==
    \/ schema[1] = "bool"
    \/ /\ IsDict(schema)
       /\ \A n \in 1..Len(schema[2]) :
            LET k == schema[2][n][1]
                v == schema[2][n][2]
            IN
            CASE k = Str("type") ->
                   \/ KnownType(v)
                   \/ /\ IsList(v)
                      /\ v[2] # <<>>
                      /\ \A m \in 1..Len(v[2]) : KnownType(v[2][m])
                      /\ \A i, j \in 1..Len(v[2]) : v[2][i] = v[2][j] => i = j
              [] k = Str("properties") ->
                   /\ IsDict(v)
                   /\ \A m \in 1..Len(v[2]) : WellFormedDraft7(v[2][m][2])
              [] k = Str("required") ->
                   /\ IsList(v)
                   /\ \A m \in 1..Len(v[2]) : IsStr(v[2][m])
                   /\ \A i, j \in 1..Len(v[2]) : v[2][i] = v[2][j] => i = j
              [] k = Str("additionalProperties") -> WellFormedDraft7(v)
              [] OTHER -> TRUE

(* C8: every non-null input_schema and output_schema of the Catalog is a   *)
(* well-formed draft-7 JSON Schema (every "type" in it is a draft-7 type   *)
(* name), and no validation against a Catalog schema fails because of the  *)
(* schema itself.                                                          *)
C8_CatalogSchemasWellFormed ==
    /\ \A n \in 1..Len(tools_schema) :
       \A field \in {"input_schema", "output_schema"} :
         tools_schema[n][2][field] # PyNone =>
           WellFormedDraft7(tools_schema[n][2][field])
    /\ pc = "validated" => validation.kind # "validation_exception"

(* C9: parse_tool_schema emits exactly one Catalog entry per block with an *)
(* extractable name (as many entries as such blocks), each entry holds the *)
(* schemas of its own block, and a block without a name is skipped without *)
(* aborting the build.                                                     *)
C9_OneEntryPerNamedBlock ==
    pc = "built" =>
      /\ Len(tools_schema) =
           Cardinality({n \in 1..Len(tool_blocks) : ~Skipped(tool_blocks[n])})
      /\ \A n \in 1..Len(tools_schema) :
           /\ tools_schema[n][2].input_schema = LastField(n).input_schema
           /\ tools_schema[n][2].output_schema =
                complete_output_schema(LastField(n).output_schema)

\* No method of parse_schema_string yields a mapping for the span
NoMapping(span) ==
    /\ span # PyNone
    /\ \A n \in 1..3 : ~IsDict(sva_method(n, span[2]))

(* C10: when no parsing strategy yields a mapping for a tool's Parameters  *)
(* or Output text, the build still completes, the tool's entry has that    *)
(* schema set to None, and a validation against that schema is invalid     *)
(* with kind schema_undefined.                                             *)
C10_ParseFailureIsNullSchema ==
    /\ pc = "raised" => ~NoMapping(Last(fields).output_str)
    /\ pc \in {"built", "validated"} =>
         \A n \in 1..Len(tools_schema) :
           /\ NoMapping(LastField(n).params_str) =>
                tools_schema[n][2].input_schema = PyNone
           /\ NoMapping(LastField(n).output_str) =>
                tools_schema[n][2].output_schema = PyNone
    /\ pc = "validated" =>
         \A n \in 1..Len(tools_schema) :
           ( /\ validation.tool = tools_schema[n][1][2]
             /\ NoMapping(IF validation.field = "input_schema"
                            THEN LastField(n).params_str
                            ELSE LastField(n).output_str) )
             => (~validation.valid /\ validation.kind = "schema_undefined")

---------------------------------------------------------------------------
(* Claims about validate_against_schema and complete_output_schema         *)

\* The schema the validation of the state was made against
ValidatedSchema ==
    tools_schema[CHOOSE n \in 1..Len(tools_schema) :
                   tools_schema[n][1][2] = validation.tool][2][validation.field]

(* C11: validate_against_schema never raises, it returns a triple (ok,     *)
(* message, kind): (False, message, schema_undefined) for the schema None, *)
(* ok = True only with message None and kind None, and (False, message,    *)
(* validation_exception) when the validator raises.                        *)
C11_ValidationReturnsTriple ==
    pc = "validated" =>
      /\ validation.valid \in BOOLEAN
      /\ ValidatedSchema = PyNone =>
           /\ ~validation.valid
           /\ validation.message # PyNone
           /\ validation.kind = "schema_undefined"
      /\ validation.valid =>
           (validation.message = PyNone /\ validation.kind = "none")
      /\ ( /\ ValidatedSchema # PyNone
           /\ "RAISE" \in iter_errors(ValidatedSchema, validation.data) ) =>
           /\ ~validation.valid
           /\ validation.message # PyNone
           /\ validation.kind = "validation_exception"

\* A validation against the schema None was made
C11_Witness ==
    /\ pc = "validated"
    /\ ValidatedSchema = PyNone
    /\ validation.kind = "schema_undefined"

\* The keyword of the first violation the validator reports: it walks the
\* keywords of a schema in the order of the mapping, the properties in the
\* order of "properties", the additional keys in the order of the instance
\* ("" when there is no violation).
RECURSIVE first_violation(_, _)
first_violation(schema, instance) ==
    IF schema = PyBool(FALSE) THEN "false"
    ELSE IF ~IsDict(schema) THEN ""
    ELSE
      LET FirstOf(seq) ==
            IF \A n \in 1..Len(seq) : seq[n] = "" THEN ""
            ELSE seq[Least({n \in 1..Len(seq) : seq[n] # ""})]
          Keyword(k, v) ==
            IF k = Str("type") THEN
              IF type_errors(TypeList(v), 1, instance) = {"type"}
                THEN "type" ELSE ""
            ELSE IF k = Str("properties") /\ IsDict(instance) /\ IsDict(v) THEN
              FirstOf([m \in 1..Len(v[2]) |->
                         IF HasKey(instance, v[2][m][1])
                           THEN first_violation(v[2][m][2],
                                                Get(instance, v[2][m][1]))
                           ELSE ""])
            ELSE IF k = Str("required") /\ IsDict(instance) /\ IsList(v) THEN
              IF \E m \in 1..Len(v[2]) : ~HasKey(instance, v[2][m])
                THEN "required" ELSE ""
            ELSE IF k = Str("additionalProperties") /\ IsDict(instance) THEN
              LET props == IF HasKey(schema, Str("properties"))
                             THEN Get(schema, Str("properties")) ELSE PyDict(<<>>)
                  extra(m) == ~(IsDict(props) /\ HasKey(props, instance[2][m][1]))
              IN IF IsDict(v)
                   THEN FirstOf([m \in 1..Len(instance[2]) |->
                                   IF extra(m)
                                     THEN first_violation(v, instance[2][m][2])
                                     ELSE ""])
                 ELSE IF v = PyBool(FALSE) /\ \E m \in 1..Len(instance[2]) : extra(m)
                   THEN "additionalProperties"
                 ELSE ""
            ELSE ""
      IN FirstOf([n \in 1..Len(schema[2]) |->
                    Keyword(schema[2][n][1], schema[2][n][2])])

(* C12: when the instance violates the schema in several ways, the kind    *)
(* validate_against_schema returns is the kind of the first violation the  *)
(* validator reports (and so the same on every run).                       *)
C12_KindOfFirstViolation ==
    ( /\ pc = "validated"
      /\ IsDict(ValidatedSchema)
      /\ "RAISE" \notin iter_errors(ValidatedSchema, validation.data)
      /\ ~validation.valid ) =>
      validation.kind =
        error_type(first_violation(ValidatedSchema, validation.data))

(* C19: complete_output_schema is idempotent on None, on a schema with a   *)
(* top-level "type" and on a bare property map, one with a field named     *)
(* "type" included: completing the completed value changes nothing.        *)
C19_CompletionIdempotent ==
    \A n \in 1..Len(fields) :
    \A x \in {fields[n].input_schema, fields[n].output_schema} :
      (x = PyNone \/ IsDict(x)) =>
        complete_output_schema(complete_output_schema(x)) =
          complete_output_schema(x)

\* The Output values of a built Catalog include a bare property map, which
\* was wrapped, and a property map with a field named "type".
C19_Witness ==
    /\ pc = "built"
    /\ Len(fields) = 2
    /\ IsDict(fields[1].output_schema)
    /\ Keys(fields[1].output_schema) = <<Str("code")>>
    /\ IsWrapperOf(tools_schema[1][2].output_schema, fields[1].output_schema)
    /\ IsDict(fields[2].output_schema)
    /\ HasKey(fields[2].output_schema, Str("type"))
    /\ IsDict(Get(fields[2].output_schema, Str("type")))

\* An object schema whose "required" names all its properties, each with a
\* draft-7 type, and whose "additionalProperties" is false
IsClosedObjectSchema(schema) ==
    /\ IsDict(schema)
    /\ Keys(schema) = <<Str("type"), Str("properties"), Str("required"),
                        Str("additionalProperties")>>
    /\ Get(schema, Str("type")) = Str("object")
    /\ IsDict(Get(schema, Str("properties")))
    /\ \A m \in 1..Len(Get(schema, Str("properties"))[2]) :
         LET sub == Get(schema, Str("properties"))[2][m][2] IN
         /\ IsDict(sub)
         /\ Keys(sub) = <<Str("type")>>
         /\ KnownType(sub[2][1][2])
    /\ Get(schema, Str("required")) = PyList(Keys(Get(schema, Str("properties"))))
    /\ Get(schema, Str("additionalProperties")) = PyBool(FALSE)

\* The instance has every property of the closed object schema with a
\* value of the declared type, and extras keys besides
FitsWithExtras(schema, instance, extras) ==
    LET props == Get(schema, Str("properties")) IN
    /\ IsDict(instance)
    /\ \A m \in 1..Len(props[2]) :
         /\ HasKey(instance, props[2][m][1])
         /\ is_type(Get(instance, props[2][m][1]), props[2][m][2][2][1][2][2][1])
    /\ Len(instance[2]) = Len(props[2]) + extras

(* C20: against an object schema whose "required" names all its           *)
(* properties and whose "additionalProperties" is false, an instance with  *)
(* exactly the required keys of the declared types is valid (True, None,   *)
(* None), and one with one extra key is invalid with kind                  *)
(* additional_properties.                                                  *)
C20_ClosedObjectSchema ==
    (pc = "validated" /\ IsClosedObjectSchema(ValidatedSchema)) =>
      /\ FitsWithExtras(ValidatedSchema, validation.data, 0) =>
           /\ validation.valid
           /\ validation.message = PyNone
           /\ validation.kind = "none"
      /\ FitsWithExtras(ValidatedSchema, validation.data, 1) =>
           /\ ~validation.valid
           /\ validation.kind = "additional_properties"

\* {"code": 1, "x": 1} was validated against the closed schema of "code"
C20_Witness ==
    /\ pc = "validated"
    /\ IsClosedObjectSchema(ValidatedSchema)
    /\ Keys(Get(ValidatedSchema, Str("properties"))) = <<Str("code")>>
    /\ FitsWithExtras(ValidatedSchema, validation.data, 1)
    /\ validation.kind = "additional_properties"

---------------------------------------------------------------------------
(* Claims about calculate_schema_validation_accuracy                       *)

(* C13: for a call whose tool name is not a key of the Catalog no          *)
(* validation is attempted: its calls_details entry has action_valid and   *)
(* observation_valid False and both error types tool_not_found;            *)
(* total_calls and the tool_not_found count grow by one, and valid_calls,  *)
(* action_valid_calls and observation_valid_calls do not change.  (Tool    *)
(* names are strings.)                                                     *)
C13_UnknownToolNotValidated ==
    [][ ( /\ pc = "calls"
          /\ call_i <= Len(tool_calls)
          /\ IsStr(tool_calls[call_i].tool_name)
          /\ ~InCatalog(tools_schema, tool_calls[call_i].tool_name) ) =>
        ( /\ Len(file_invalid_details') = Len(file_invalid_details) + 1
          /\ SubSeq(file_invalid_details', 1, Len(file_invalid_details)) =
               file_invalid_details
          /\ LET entry == Last(file_invalid_details') IN
             /\ entry.tool_name = tool_calls[call_i].tool_name
             /\ entry.action_valid = FALSE
             /\ entry.observation_valid = FALSE
             /\ entry.action_error_type = "tool_not_found"
             /\ entry.observation_error_type = "tool_not_found"
             /\ "action_error" \notin DOMAIN entry
             /\ "observation_error" \notin DOMAIN entry
          /\ total_calls' = total_calls + 1
          /\ error_type_stats' =
               [error_type_stats EXCEPT !["tool_not_found"] = @ + 1]
          /\ valid_calls' = valid_calls
          /\ action_valid_calls' = action_valid_calls
          /\ observation_valid_calls' = observation_valid_calls ) ]_vars

\* A call of a tool that is not in the Catalog was handled after a call
\* that was validated
C13_Witness ==
    /\ pc = "calls"
    /\ Len(file_invalid_details) = 2
    /\ "reason" \notin DOMAIN file_invalid_details[1]
    /\ "reason" \in DOMAIN file_invalid_details[2]
    /\ error_type_stats["tool_not_found"] = 1
    /\ total_calls = 2

\* The number of calls of the details whose args and observation are valid
BothValid(details) ==
    Cardinality({n \in 1..Len(details) :
                   details[n].action_valid /\ details[n].observation_valid})

\* valid <= action_valid <= total and valid <= observation_valid <= total
Ordered(total, valid, action_valid, observation_valid) ==
    /\ valid <= action_valid
    /\ action_valid <= total
    /\ valid <= observation_valid
    /\ observation_valid <= total

\* The counters of the file in hand, of every recorded file and of the
\* whole run
C14_Counters ==
    /\ Ordered(total_calls, valid_calls, action_valid_calls,
               observation_valid_calls)
    /\ Ordered(file_total_calls, file_valid_calls, file_action_valid_calls,
               file_observation_valid_calls)
    /\ pc = "calls" =>
         /\ file_total_calls = Len(file_invalid_details)
         /\ file_valid_calls = BothValid(file_invalid_details)
    /\ \A n \in 1..Len(per_file_results) :
         LET r == per_file_results[n] IN
         /\ Ordered(r.total_calls, r.valid_calls, r.action_valid_calls,
                    r.observation_valid_calls)
         /\ r.invalid_calls = r.total_calls - r.valid_calls
         /\ r.total_calls = Len(r.calls_details)
         /\ r.valid_calls = BothValid(r.calls_details)
    /\ pc = "returned" =>
         LET o == accuracy_result.overall IN
         /\ Ordered(o.total_calls, o.valid_calls, o.action_valid_calls,
                    o.observation_valid_calls)
         /\ o.invalid_calls = o.total_calls - o.valid_calls
         /\ o.valid_calls = valid_calls
         /\ o.total_calls = total_calls

\* The call in hand is of a tool of the Catalog and its args and its
\* observation both validate
CallValidates ==
    /\ Hashable(tool_calls[call_i].tool_name)
    /\ InCatalog(tools_schema, tool_calls[call_i].tool_name)
    /\ validate_against_schema(tool_calls[call_i].args,
         SchemaOf(tools_schema, tool_calls[call_i].tool_name).input_schema).valid
    /\ validate_against_schema(tool_calls[call_i].observation,
         SchemaOf(tools_schema, tool_calls[call_i].tool_name).output_schema).valid

(* C14: a call is counted in valid_calls if and only if its args validate  *)
(* against input_schema and its observation against output_schema; after   *)
(* any sequence of calls, per file and overall, valid_calls <=              *)
(* action_valid_calls <= total_calls, valid_calls <=                       *)
(* observation_valid_calls <= total_calls and invalid_calls = total_calls  *)
(* - valid_calls.                                                          *)
C14_ValidIffBothValidate ==
    /\ []C14_Counters
    /\ [][ (pc = "calls" /\ call_i <= Len(tool_calls)) =>
           /\ valid_calls' =
                IF CallValidates THEN valid_calls + 1 ELSE valid_calls
           /\ pc' = "calls" =>
                file_valid_calls' =
                  IF CallValidates THEN file_valid_calls + 1
                  ELSE file_valid_calls ]_vars

\* A file of two calls was recorded: one with valid args and an invalid
\* observation, one with both valid
C14_Witness ==
    /\ Len(per_file_results) = 1
    /\ per_file_results[1].total_calls = 2
    /\ per_file_results[1].valid_calls = 1
    /\ per_file_results[1].action_valid_calls = 2
    /\ per_file_results[1].observation_valid_calls = 1

\* The files the folders list that are not one of the two special files
ListedFiles ==
    UNION {{<<f, data_folders[f].files[n]>> :
              n \in {m \in 1..Len(data_folders[f].files) :
                       data_folders[f].files[m] \notin
                         {"question_info.json", "batch_summary.json"}}} :
             f \in {g \in 1..Len(data_folders) : data_folders[g].exists}}

RecordedFiles == {per_file_results[n].file : n \in 1..Len(per_file_results)}

FailedFiles ==
    {printed[n].file : n \in {m \in 1..Len(printed) :
                                printed[m].what = "file_error"}}

\* When the function has returned, every listed file that is not special
\* has a result or a printed error, nothing else has, and the result holds
\* the results of the files
C15_EveryFileHandled ==
    pc = "returned" =>
      /\ DOMAIN accuracy_result = {"per_file_results", "overall"}
      /\ accuracy_result.per_file_results = per_file_results
      /\ RecordedFiles \cup FailedFiles = ListedFiles
      /\ RecordedFiles \cap FailedFiles = {}
      /\ Len(per_file_results) = Cardinality(RecordedFiles)
      /\ \A f \in 1..Len(data_folders) :
           ~data_folders[f].exists =>
             \E n \in 1..Len(printed) :
               printed[n] = [what |-> "folder_missing", folder |-> f]

(* C15: calculate_schema_validation_accuracy terminates and returns a      *)
(* result for every list of folders and files: a missing folder is         *)
(* skipped, question_info.json and batch_summary.json are never processed, *)
(* and an exception of one transcript file is caught at the file boundary, *)
(* so every file after it is still processed.  (Once the Catalog is        *)
(* built.)                                                                 *)
C15_TerminatesAndReturns ==
    /\ (pc = "folders") ~> (pc = "returned")
    /\ []C15_EveryFileHandled

\* The function returned after the first file of a folder failed and the
\* second was recorded
C15_Witness ==
    /\ pc = "returned"
    /\ Len(data_folders) = 1
    /\ Len(data_folders[1].files) = 2
    /\ FailedFiles = {<<1, data_folders[1].files[1]>>}
    /\ RecordedFiles = {<<1, data_folders[1].files[2]>>}
    /\ accuracy_result.overall.total_calls = 2

\* A step of transcript processing: any step after the Catalog is built
TranscriptStep == pc \in {"folders", "files", "calls"}

(* C21: once parse_tool_schema has returned, no step of transcript         *)
(* processing (a call that validates, a call that fails validation, a call *)
(* of an unknown tool, a file that raises, a file recorded) adds, removes  *)
(* or changes a Catalog entry or a schema in it.                           *)
C21_CatalogReadOnly ==
    [][TranscriptStep => tools_schema' = tools_schema]_vars

\* All files are done with a non-empty Catalog, after a call of an unknown
\* tool, a call that failed validation and a file that raised
C21_Witness ==
    /\ pc = "returned"
    /\ tools_schema # <<>>
    /\ error_type_stats["tool_not_found"] > 0
    /\ \E k \in DOMAIN error_type_stats \ {"tool_not_found"} :
         error_type_stats[k] > 0
    /\ \E n \in 1..Len(printed) : printed[n].what = "file_error"

---------------------------------------------------------------------------
(* Claims about normalize_tool_schema.py                                   *)

(* C16: normalisation is idempotent: for every text s,                     *)
(* fix_json_string(fix_json_string(s)) = fix_json_string(s).               *)
C16_FixIdempotent ==
    Len(fixed_texts) = 2 => fixed_texts[2] = fixed_texts[1]

\* The text without its white space
NoSpace(t) == SelectSeq(t, LAMBDA c : ~IsSpace(c))

(* C17: each structural repair (fix_properties_closure,                    *)
(* fix_bracket_mismatch, fix_anyof_structure) returns an already           *)
(* well-formed JSON Schema text unchanged up to white space, whatever      *)
(* property names, array contents and combinator members it has.           *)
C17_RepairsKeepWellFormed ==
    pc = "repaired" => NoSpace(repaired[2]) = NoSpace(text)

(* C18: round trip: when parse_schema_string returns a schema S for a      *)
(* text, writing S as JSON, as normalize_tool_txt does, and parsing the    *)
(* text written with parse_schema_string gives a structure equal to S.     *)
C18_RoundTrip ==
    /\ pc # "raised"
    /\ pc = "reparsed" => PyEqual(round_trip[3], round_trip[1])

\* What follows the comma at k, white space apart, is one of the four keys
\* between two quotes of the same kind
QuotedTopLevelKey(t, k) ==
    LET r == SkipSpace(t, k + 1) IN
    /\ r + 2 < Len(t)
    /\ At(t, r) \in {DQ, SQ}
    /\ At(t, r + 1) \in TopLevelKeys
    /\ At(t, r + 2) = At(t, r)

\* The commas at depth 1, outside strings, that a quoted top-level key
\* follows
SiblingCommas(t, b) ==
    {k \in b..(Len(t) - 1) :
       /\ Lexical(t, b, k)
       /\ OpenQuote(t, b, k) = NoStr
       /\ At(t, k) = COMMA
       /\ Depth(t, b, k) = 1
       /\ QuotedTopLevelKey(t, k)}

\* The closing braces of the children up to position k: those that bring
\* the depth back to 1
ChildCloses(t, b, k) ==
    {m \in b..k : BraceAt(t, b, m, RBRACE) /\ Depth(t, b, m) = 1}

\* A sibling key is met before the depth is back to 0
SiblingKeyFirst(t, b) ==
    /\ SiblingCommas(t, b) # {}
    /\ \A z \in DepthZero(t, b) : Least(SiblingCommas(t, b)) < z

InsertAfter(t, m, c) == Slice(t, 0, m + 1) \o <<c>> \o Slice(t, m + 1, Len(t))

(* C22: fix_properties_closure scans from the "{" that opens the first     *)
(* properties value: if a comma at depth 1 is directly followed (white     *)
(* space apart) by a quoted required, type, additionalProperties or        *)
(* description key before the depth is back to 0, exactly one "}" is       *)
(* inserted just after the last child closing brace seen at depth 1 and    *)
(* nothing else changes; if the depth is back to 0 first, or there is no   *)
(* properties key, the text is returned unchanged.                         *)
C22_PropertiesClosure ==
    (pc = "repaired" /\ repair = "fix_properties_closure") =>
      LET b == PropertiesOpen(text, 0) IN
      IF b = -1 THEN repaired = PyStr(text)
      ELSE IF SiblingKeyFirst(text, b)
        THEN \E m \in ChildCloses(text, b, Least(SiblingCommas(text, b))) :
               /\ \A n \in ChildCloses(text, b, Least(SiblingCommas(text, b))) :
                    n <= m
               /\ repaired = PyStr(InsertAfter(text, m, RBRACE))
      ELSE DepthZero(text, b) # {} => repaired = PyStr(text)

\* The array repaired: the members closed and joined by "},{", "]", then
\* the hoisted pairs in the given order
RepairedText(r, key, hoisted) ==
    <<LBRACE>> \o Quoted(key) \o <<COLON, LBRACK>>
      \o Member("string", r.own1) \o <<RBRACE, COMMA>>
      \o Member("null", r.own2) \o <<RBRACE, RBRACK>>
      \o Flatten(hoisted) \o <<RBRACE>>

Canonical(key) == IF key = "anyof" THEN "anyOf" ELSE key

\* The orders in which the pairs of ps may be written
Orders(ps) ==
    {qs \in [1..Len(ps) -> {ps[n] : n \in 1..Len(ps)}] :
       \A i, j \in 1..Len(qs) : i # j => qs[i] # qs[j]}

(* C23: fix_anyof_structure, on a combinator array in which a member's     *)
(* closing brace is missing before ",{" and default, title or description  *)
(* pairs follow the last member inside the array, yields the members as    *)
(* separate objects joined by "},{" and closed by "]", followed by the     *)
(* hoisted pairs as siblings of the combinator key; the members' own keys  *)
(* and values and the hoisted values are unchanged and no pair of a member *)
(* is moved out of it.                                                     *)
C23_AnyOfRepair ==
    (pc = "repaired" /\ repair = "fix_anyof_structure") =>
      \A r \in BrokenArrays :
        text = BrokenText(r) =>
          \E key \in {r.key, Canonical(r.key)} :
          \E hoisted \in Orders(r.trailing) :
            repaired = PyStr(RepairedText(r, key, hoisted))

(* C24: after the repair the combinator key is spelled anyOf, oneOf or     *)
(* allOf whatever casing the input used: the docstring's key anyof comes   *)
(* out as anyOf.                                                           *)
C24_CombinatorKeyCasing ==
    (pc = "repaired" /\ repair = "fix_anyof_structure") =>
      /\ \A n \in 1..Len(repaired[2]) :
           repaired[2][n] \in CombinatorKeys =>
             repaired[2][n] \in {"anyOf", "oneOf", "allOf"}
      /\ text = BrokenText(DocstringArray) =>
           SubSeq(repaired[2], 1, 4) = <<LBRACE>> \o Quoted("anyOf")

\* What an element of an enum array may be after normalisation: a bare one
\* between double quotes, a quoted one as it was or with its two quotes
\* written as double quotes
NormalisedElement(e) ==
    IF Head(e) \in {DQ, SQ} THEN {e, <<DQ, e[2], DQ>>} ELSE {<<DQ>> \o e \o <<DQ>>}

\* The texts between "[" and "]" that the elements of items may become
RECURSIVE NormalisedItems(_)
NormalisedItems(items) ==
    IF Len(items) = 1 THEN NormalisedElement(Head(items))
    ELSE {e \o <<COMMA>> \o rest :
            e \in NormalisedElement(Head(items)),
            rest \in NormalisedItems(Tail(items))}

\* The text between the first "[" and the first "]" of t
ArrayContent(t) == Slice(t, Find(t, LBRACK, 0) + 1, Find(t, RBRACK, 0))

(* C25: after normalisation by fix_json_string every element of an enum    *)
(* array that did not start with a quote is a double-quoted string literal *)
(* and every element that started with a quote is unchanged, whether the   *)
(* enum key was written between quotes or bare: the docstring's            *)
(* enum:[complete,partial] becomes enum:["complete","partial"].            *)
C25_EnumElementsQuoted ==
    (pc = "fix" /\ impl = "nts" /\ Len(fixed_texts) >= 1) =>
      \A r \in EnumArrays :
        text = EnumText(r) =>
          /\ Find(fixed_texts[1], LBRACK, 0) # -1
          /\ Find(fixed_texts[1], RBRACK, 0) # -1
          /\ ArrayContent(fixed_texts[1]) \in NormalisedItems(r.items)

\* Where normalize_quotes stands when it reads position k: the quote
\* character of the string that is open (NoStr outside strings), and
\* whether position k is the second character of an escape pair
RECURSIVE QuoteState(_, _)
QuoteState(t, k) ==
    IF k = 0 THEN [open |-> NoStr, escaped |-> FALSE]
    ELSE LET s == QuoteState(t, k - 1)
             c == At(t, k - 1)
         IN IF s.escaped THEN [open |-> s.open, escaped |-> FALSE]
            ELSE IF s.open = NoStr
              THEN [open |-> IF c \in {DQ, SQ} THEN c ELSE NoStr,
                    escaped |-> FALSE]
            ELSE IF c = BSL THEN [open |-> s.open, escaped |-> k < Len(t)]
            ELSE IF c = s.open THEN [open |-> NoStr, escaped |-> FALSE]
            ELSE s

\* Position k holds a single quote that opens or closes a string
SingleQuoteDelimiter(t, k) ==
    /\ At(t, k) = SQ
    /\ ~QuoteState(t, k).escaped
    /\ QuoteState(t, k).open \in {NoStr, SQ}

(* C26: normalize_quotes rewrites the two delimiters of each single-quoted *)
(* string to double quotes and changes nothing else: the output has the    *)
(* length of the input and differs from it only where the input holds a    *)
(* single-quote delimiter.  Inside a string only an unescaped occurrence   *)
(* of the quote character that opened it closes it: a single quote inside  *)
(* a double-quoted string and a double quote inside a single-quoted string *)
(* neither open nor close a string, and a backslash escape pair inside a   *)
(* string is copied unchanged.                                             *)
C26_OnlyDelimitersRewritten ==
    pc = "normalized" =>
      /\ Len(repaired[2]) = Len(text)
      /\ \A k \in 0..(Len(text) - 1) :
           At(repaired[2], k) =
             IF SingleQuoteDelimiter(text, k) THEN DQ ELSE At(text, k)

\* '\'"' became "\'"": the escaped single quote and the double quote inside
\* the single-quoted string were copied, its two delimiters rewritten
C26_Witness ==
    /\ pc = "normalized"
    /\ text = <<SQ, BSL, SQ, DQ, SQ>>
    /\ repaired = PyStr(<<DQ, BSL, SQ, DQ, DQ>>)

---------------------------------------------------------------------------
(* Claims about the totals of calculate_schema_validation_accuracy         *)

\* The sum of one counter over the first n file results
RECURSIVE SumOverFiles(_, _, _)
SumOverFiles(results, counter, n) ==
    IF n = 0 THEN 0
    ELSE SumOverFiles(results, counter, n - 1) + results[n][counter]

OverallCounters ==
    {"total_calls", "valid_calls", "action_valid_calls",
     "observation_valid_calls"}

(* C29: when calculate_schema_validation_accuracy has returned, whatever   *)
(* files were skipped because an exception was raised part-way through     *)
(* their calls, each overall counter (total_calls, valid_calls,            *)
(* action_valid_calls, observation_valid_calls) is the sum of the same     *)
(* counter over per_file_results, and the calls_details of each file       *)
(* result has total_calls entries.                                         *)
C29_OverallIsSumOfFiles ==
    pc = "returned" =>
      LET results == accuracy_result.per_file_results IN
      /\ \A counter \in OverallCounters :
           accuracy_result.overall[counter]
             = SumOverFiles(results, counter, Len(results))
      /\ \A n \in 1..Len(results) :
           Len(results[n].calls_details) = results[n].total_calls

---------------------------------------------------------------------------
(* Claims about the Catalog of a normalised file                           *)

\* The names of the tools whose Parameters text failed to parse (lines
\* 640-641)
FailedParameters ==
    {parse_errors[n].tool_name :
       n \in {m \in 1..Len(parse_errors) :
                parse_errors[m].field = "Parameters"}}

\* The block has the line "Parameters: {}"
EmptyParametersLine(block) ==
    \E i \in 0..Len(block) :
       /\ i + 7 <= Len(block)
       /\ Slice(block, i, i + 7)
            = <<NL, "Parameters", COLON, SPACE, LBRACE, RBRACE, NL>>

(* C30: when the Parameters text of a tool fails to parse,                 *)
(* normalize_tool_txt writes "Parameters: {}" for the tool; the Catalog    *)
(* built from the file it wrote has input_schema = {} for the tool, an     *)
(* empty mapping and not None, and validate_against_schema accepts every   *)
(* args against it and never answers schema_undefined.                     *)
C30_FailedParametersAcceptAll ==
    pc \in {"built", "validated"} =>
      \A name \in FailedParameters :
         /\ \E n \in 1..Len(tool_blocks) :
              /\ name_match(tool_blocks[n], 0) = name
              /\ EmptyParametersLine(tool_blocks[n])
         /\ InCatalog(tools_schema, PyStr(name))
         /\ SchemaOf(tools_schema, PyStr(name)).input_schema = PyDict(<<>>)
         /\ (/\ pc = "validated"
             /\ validation.tool = name
             /\ validation.field = "input_schema")
              => /\ validation.valid
                 /\ validation.kind # "schema_undefined"

---------------------------------------------------------------------------
(* Claims about duplicate_call_rate.py                                     *)

\* The two calls have the same tool name and the same normalised args
SameCall(c, d) ==
    /\ c.tool_name = d.tool_name
    /\ normalize_args(c.args) = normalize_args(d.args)

\* Among the first n calls, those that an earlier call equals
ExactDuplicates(n) ==
    {k \in 1..n : \E j \in 1..(k - 1) : SameCall(calls[j], calls[k])}

\* Among the first n calls, those whose tool an earlier call names
ToolDuplicates(n) ==
    {k \in 1..n : \E j \in 1..(k - 1) : calls[j].tool_name = calls[k].tool_name}

\* Among the first n calls, those with the signature of the call before
ConsecutiveDuplicates(n) ==
    {k \in 2..n :
       get_call_signature(calls[k - 1].tool_name, calls[k - 1].args)
         = get_call_signature(calls[k].tool_name, calls[k].args)}

DistinctCalls(n) ==
    {<<calls[k].tool_name, normalize_args(calls[k].args)>> : k \in 1..n}

DistinctTools(n) == {calls[k].tool_name : k \in 1..n}

(* C27: calculate_duplicate_metrics, after any sequence of calls: a call   *)
(* is an exact duplicate iff an earlier call has the same tool name and    *)
(* the same normalised args, a tool duplicate iff an earlier call has the  *)
(* same tool name, a consecutive duplicate iff the call just before has    *)
(* the same signature; so exact_dup_count = calls - distinct signatures,   *)
(* tool_dup_count = calls - distinct tool names, and with at least one     *)
(* call consecutive_dup_count <= exact_dup_count <= tool_dup_count <=      *)
(* calls - 1.  (Tool names are strings.)                                   *)
C27_DuplicateCounts ==
    pc \in {"metrics", "returned"} =>
      /\ exact_dup_count = Cardinality(ExactDuplicates(idx))
      /\ tool_dup_count = Cardinality(ToolDuplicates(idx))
      /\ consecutive_dup_count = Cardinality(ConsecutiveDuplicates(idx))
      /\ \A n \in 1..Len(duplicate_details) :
           LET d == duplicate_details[n] IN
           /\ d.is_exact_dup <=> (d.call_index + 1) \in ExactDuplicates(idx)
           /\ d.is_consecutive_dup
                <=> (d.call_index + 1) \in ConsecutiveDuplicates(idx)
      /\ exact_dup_count = idx - Cardinality(DistinctCalls(idx))
      /\ tool_dup_count = idx - Cardinality(DistinctTools(idx))
      /\ idx > 0 =>
           /\ consecutive_dup_count <= exact_dup_count
           /\ exact_dup_count <= tool_dup_count
           /\ tool_dup_count <= idx - 1
      /\ pc = "returned" =>
           /\ idx = Len(calls)
           /\ duplicate_metrics.total_calls = Len(calls)
           /\ duplicate_metrics.exact_dup_count = exact_dup_count
           /\ duplicate_metrics.tool_dup_count = tool_dup_count
           /\ duplicate_metrics.consecutive_dup_count = consecutive_dup_count

\* Three calls of one tool were counted: the third has the normalised
\* args of the first, the second has not
C27_Witness ==
    /\ pc = "returned"
    /\ Len(calls) = 3
    /\ duplicate_metrics.tool_dup_count = 2
    /\ duplicate_metrics.exact_dup_count = 1
    /\ duplicate_metrics.consecutive_dup_count = 0
    /\ calls[1].args # calls[3].args

---------------------------------------------------------------------------
(* Claims about name_file.py                                               *)

\* The names of the files of a folder that the function is to rename
Renamable(files) == DOMAIN files \ SpecialFiles

(* C28: rename_json_files_in_folder with dry_run = False, on a folder with *)
(* N JSON files besides the special ones (names of the forms temp_NNN.json *)
(* and run_NNN.json of an earlier run included), ends with exactly the     *)
(* names run_001.json .. run_N.json, each holding the content of a         *)
(* different original file, and with the special files as they were; with  *)
(* dry_run = True no file is renamed.                                      *)
C28_RenameIsBijection ==
    (pc = "returned" /\ folder.exists) =>
      LET before == folder_before.files
          after == folder.files
          N == Cardinality(Renamable(before))
      IN IF dry_run THEN after = before
         ELSE /\ Renamable(after) = {RunName(i) : i \in 1..N}
              /\ {after[n] : n \in Renamable(after)}
                   = {before[n] : n \in Renamable(before)}
              /\ \A n \in SpecialFiles :
                   /\ n \in DOMAIN after <=> n \in DOMAIN before
                   /\ n \in DOMAIN before => after[n] = before[n]

===========================================================================
